---- MODULE Spec2Model ----
(***************************************************************************)
(* Command lifecycle broker of remote-cmd-relay: the commandQueue table,   *)
(* the mutations and queries of commands.ts, public.ts and rpc.ts that     *)
(* read and write it, and the exec / execAsync helpers of rpc.ts.          *)
(*                                                                         *)
(* Every Convex mutation or query runs as one serializable transaction,    *)
(* so each handler is one atomic action.  Optional fields (v.optional)     *)
(* are modelled as None (absent) or Some(x).  A command id is the position *)
(* of the record in commandQueue, which is also its creation order.        *)
(***************************************************************************)
EXTENDS Integers, Sequences, FiniteSets, TLC

VARIABLES
    commandQueue,   \* the commandQueue table, in insertion order
    now,            \* Date.now()
    lastCall,       \* outcome of the handler that ran in the last step
    claimCalls,     \* claim calls issued concurrently: claimant -> call
    preempted,      \* ids whose pending status another mutation ended during a claim race
    ex,             \* the running exec / execAsync call
    relay           \* the Relay object and its command runs in progress

vars == <<commandQueue, now, lastCall, claimCalls, preempted, ex, relay>>

-----------------------------------------------------------------------------
(* Bounds *)

MaxCommands == 1
MaxTime == 2
MaxRacers == 3
MaxQueued == 2
MaxRetries == 1

-----------------------------------------------------------------------------
(* Values *)

None == <<>>
Some(x) == <<x>>
IsSome(o) == o # None

\* args.x ?? d
OrElse(o, d) == IF o = None THEN d ELSE o[1]

\* JavaScript truthiness of an optional string: undefined and "" are falsy
Truthy(o) == o # None /\ o[1] # ""

DefaultPort == 22
DefaultTimeoutMs == 30000
DefaultLimit == 10
PublicLimit == 10
DefaultPollIntervalMs == 100
DefaultRetries == 0
DefaultRetryDelayMs == 1000

Statuses == {"pending", "claimed", "executing", "completed", "failed", "timeout"}
TargetTypes == {"local", "ssh"}
SshError == "SSH target requires targetHost and targetUsername"
NotFoundError == "Command not found"
NotPendingError == "Command is not pending"

Machines == {"m1", "m2"}
Claimants == {"relay-1", "relay-2"}

\* the claimant ids of the calls of a claim race
Racers == {"relay-" \o ToString(n) : n \in 1..MaxRacers}
Ids == 1..MaxCommands

\* an id that refers to a record of the table
Exists(id) == id \in 1..Len(commandQueue)

IsTerminal(s) == s \in {"completed", "failed", "timeout"}

\* the value a handler leaves in lastCall: what it returned or threw, and for a
\* successful claim the claimant it recorded
Reply(op, id, by, ok, threw, err) ==
    [op |-> op, id |-> id, by |-> by, ok |-> ok, threw |-> threw, err |-> err,
     args |-> None]

\* the same for a handler that creates a command, with the arguments it was given
ReplyTo(args, op, id, ok, threw, err) ==
    [Reply(op, id, "", ok, threw, err) EXCEPT !.args = Some(args)]

NoCall == Reply("none", 0, "", FALSE, FALSE, "")

-----------------------------------------------------------------------------
(* Argument sets *)

\* arguments of queue / queueRpcCommand
QueueArgs(machineId, targetType, targetHost, targetPort, targetUsername, timeoutMs) ==
    [machineId |-> machineId, command |-> "uptime", targetType |-> targetType,
     targetHost |-> targetHost, targetPort |-> targetPort,
     targetUsername |-> targetUsername, timeoutMs |-> timeoutMs,
     createdBy |-> "user-1"]

\* well-formed targets, used where the target is not what is examined
PlainTargets ==
    { QueueArgs("m1", "local", None, None, None, None) }

OptHosts == {None, Some(""), Some("10.0.0.5")}
OptUsers == {None, Some(""), Some("admin")}

\* every combination of target type, host and username
AllTargets ==
    { QueueArgs("m1", tt, h, None, u, None) :
        tt \in TargetTypes, h \in OptHosts, u \in OptUsers }

\* arguments of complete / submitResult
ResultArgs ==
    { [success |-> TRUE, output |-> Some("hi"), stderr |-> None,
       exitCode |-> Some(0), error |-> None, durationMs |-> Some(5)],
      [success |-> FALSE, output |-> None, stderr |-> Some("boom"),
       exitCode |-> Some(1), error |-> Some("exit 1"), durationMs |-> None] }

\* arguments of updatePartialOutput; strings are sequences of characters
PartialArgs ==
    { [partialOutput |-> Some(<<"a">>), partialStderr |-> None],
      [partialOutput |-> Some(<<"a", "b">>), partialStderr |-> Some(<<"w">>)] }

-----------------------------------------------------------------------------
(* The commandQueue table *)

\* the document inserted by queue and by queueRpcCommand
NewCommand(args, t) ==
    [machineId |-> args.machineId,
     command |-> args.command,
     targetType |-> args.targetType,
     targetHost |-> args.targetHost,
     targetPort |-> Some(OrElse(args.targetPort, DefaultPort)),
     targetUsername |-> args.targetUsername,
     timeoutMs |-> OrElse(args.timeoutMs, DefaultTimeoutMs),
     status |-> "pending",
     claimedBy |-> None, claimedAt |-> None,
     output |-> None, stderr |-> None, exitCode |-> None, error |-> None,
     durationMs |-> None, completedAt |-> None,
     partialOutput |-> None, partialStderr |-> None,
     createdBy |-> args.createdBy,
     createdAt |-> t, updatedAt |-> t]

\* the SSH target check looking at the host alone
SshInvalidHostOnly(args) ==
    args.targetType = "ssh" /\ ~Truthy(args.targetHost)

\* the SSH target check shared by queue, queueRpcCommand, exec and execAsync
SshInvalid(args) ==
    args.targetType = "ssh" /\ (~Truthy(args.targetHost) \/ ~Truthy(args.targetUsername))

\* an insert that reuses the slot of the newest record
InsertOverLast(doc) ==
    commandQueue' = IF commandQueue = <<>>
                    THEN <<doc>>
                    ELSE [commandQueue EXCEPT ![Len(commandQueue)] = doc]

\* ctx.db.insert("commandQueue", doc)
Insert(doc) == commandQueue' = Append(commandQueue, doc)

\* ctx.db.patch(id, fields): the record after the patch is doc
Patch(id, doc) == commandQueue' = [commandQueue EXCEPT ![id] = doc]

-----------------------------------------------------------------------------
(* commands.ts *)

\* commands.queue
Queue(args) ==
    /\ IF SshInvalid(args)
       THEN /\ lastCall' = ReplyTo(args, "queue", 0, FALSE, TRUE, SshError)
            /\ UNCHANGED commandQueue
       ELSE /\ Insert(NewCommand(args, now))
            /\ lastCall' = ReplyTo(args, "queue", Len(commandQueue) + 1, TRUE, FALSE, "")
    /\ UNCHANGED <<now, claimCalls, preempted, ex, relay>>

\* commands.claim without its status check
ClaimUnchecked(id, claimedBy) ==
    /\ IF ~Exists(id)
       THEN /\ lastCall' = Reply("claim", id, "", FALSE, TRUE, NotFoundError)
            /\ UNCHANGED commandQueue
       ELSE /\ Patch(id, [commandQueue[id] EXCEPT
                            !.status = "claimed",
                            !.claimedBy = Some(claimedBy),
                            !.claimedAt = Some(now),
                            !.updatedAt = now])
            /\ lastCall' = Reply("claim", id, claimedBy, TRUE, FALSE, "")
    /\ UNCHANGED <<now, ex>>

\* commands.claim answering for a missing record as for one that is not pending
ClaimMissingAsNotPending(id, claimedBy) ==
    /\ IF ~Exists(id) \/ commandQueue[id].status # "pending"
       THEN /\ lastCall' = Reply("claim", id, "", FALSE, FALSE, "")
            /\ UNCHANGED commandQueue
       ELSE /\ Patch(id, [commandQueue[id] EXCEPT
                            !.status = "claimed",
                            !.claimedBy = Some(claimedBy),
                            !.claimedAt = Some(now),
                            !.updatedAt = now])
            /\ lastCall' = Reply("claim", id, claimedBy, TRUE, FALSE, "")
    /\ UNCHANGED <<now, ex>>

\* commands.claim
Claim(id, claimedBy) ==
    /\ IF ~Exists(id)
       THEN /\ lastCall' = Reply("claim", id, "", FALSE, TRUE, NotFoundError)
            /\ UNCHANGED commandQueue
       ELSE IF commandQueue[id].status # "pending"
       THEN /\ lastCall' = Reply("claim", id, "", FALSE, FALSE, "")
            /\ UNCHANGED commandQueue
       ELSE /\ Patch(id, [commandQueue[id] EXCEPT
                            !.status = "claimed",
                            !.claimedBy = Some(claimedBy),
                            !.claimedAt = Some(now),
                            !.updatedAt = now])
            /\ lastCall' = Reply("claim", id, claimedBy, TRUE, FALSE, "")
    /\ UNCHANGED <<now, ex>>

\* commands.startExecution
StartExecution(id) ==
    /\ IF ~Exists(id)
       THEN /\ lastCall' = Reply("startExecution", id, "", FALSE, TRUE, NotFoundError)
            /\ UNCHANGED commandQueue
       ELSE /\ Patch(id, [commandQueue[id] EXCEPT
                            !.status = "executing",
                            !.updatedAt = now])
            /\ lastCall' = Reply("startExecution", id, "", TRUE, FALSE, "")
    /\ UNCHANGED <<now, ex>>

\* the patch of complete with the status decided by the exit code as well
WithResultByExitCode(cmd, r, t) ==
    [cmd EXCEPT
        !.status = IF r.success /\ r.exitCode \in {Some(0), None}
                   THEN "completed" ELSE "failed",
        !.output = r.output,
        !.stderr = r.stderr,
        !.exitCode = r.exitCode,
        !.error = r.error,
        !.durationMs = r.durationMs,
        !.completedAt = Some(t),
        !.updatedAt = t]

\* the record after the patch of complete and of submitResult
WithResult(cmd, r, t) ==
    [cmd EXCEPT
        !.status = IF r.success THEN "completed" ELSE "failed",
        !.output = r.output,
        !.stderr = r.stderr,
        !.exitCode = r.exitCode,
        !.error = r.error,
        !.durationMs = r.durationMs,
        !.completedAt = Some(t),
        !.updatedAt = t]

\* commands.complete
Complete(id, r) ==
    /\ IF ~Exists(id)
       THEN /\ lastCall' = Reply("complete", id, "", FALSE, TRUE, NotFoundError)
            /\ UNCHANGED commandQueue
       ELSE /\ Patch(id, WithResult(commandQueue[id], r, now))
            /\ lastCall' = ReplyTo(r, "complete", id, TRUE, FALSE, "")
    /\ UNCHANGED <<now, ex>>

-----------------------------------------------------------------------------
(* public.ts *)

\* public.claimCommand rejecting only commands that have finished or started
ClaimCommandSteals(commandId, assignmentId) ==
    /\ IF ~Exists(commandId)
       THEN /\ lastCall' = Reply("claimCommand", commandId, "", FALSE, FALSE, NotFoundError)
            /\ UNCHANGED commandQueue
       ELSE IF commandQueue[commandId].status \notin {"pending", "claimed"}
       THEN /\ lastCall' = Reply("claimCommand", commandId, "", FALSE, FALSE, NotPendingError)
            /\ UNCHANGED commandQueue
       ELSE /\ Patch(commandId, [commandQueue[commandId] EXCEPT
                            !.status = "claimed",
                            !.claimedBy = Some(assignmentId),
                            !.claimedAt = Some(now),
                            !.updatedAt = now])
            /\ lastCall' = Reply("claimCommand", commandId, assignmentId, TRUE, FALSE, "")
    /\ UNCHANGED <<now, ex>>

\* public.claimCommand stamping the record it rejects
ClaimCommandStampsRejected(commandId, assignmentId) ==
    /\ IF ~Exists(commandId)
       THEN /\ lastCall' = Reply("claimCommand", commandId, "", FALSE, FALSE, NotFoundError)
            /\ UNCHANGED commandQueue
       ELSE IF commandQueue[commandId].status # "pending"
       THEN /\ lastCall' = Reply("claimCommand", commandId, "", FALSE, FALSE, NotPendingError)
            /\ Patch(commandId, [commandQueue[commandId] EXCEPT !.updatedAt = now])
       ELSE /\ Patch(commandId, [commandQueue[commandId] EXCEPT
                            !.status = "claimed",
                            !.claimedBy = Some(assignmentId),
                            !.claimedAt = Some(now),
                            !.updatedAt = now])
            /\ lastCall' = Reply("claimCommand", commandId, assignmentId, TRUE, FALSE, "")
    /\ UNCHANGED <<now, ex>>

\* public.claimCommand
ClaimCommand(commandId, assignmentId) ==
    /\ IF ~Exists(commandId)
       THEN /\ lastCall' = Reply("claimCommand", commandId, "", FALSE, FALSE, NotFoundError)
            /\ UNCHANGED commandQueue
       ELSE IF commandQueue[commandId].status # "pending"
       THEN /\ lastCall' = Reply("claimCommand", commandId, "", FALSE, FALSE, NotPendingError)
            /\ UNCHANGED commandQueue
       ELSE /\ Patch(commandId, [commandQueue[commandId] EXCEPT
                            !.status = "claimed",
                            !.claimedBy = Some(assignmentId),
                            !.claimedAt = Some(now),
                            !.updatedAt = now])
            /\ lastCall' = Reply("claimCommand", commandId, assignmentId, TRUE, FALSE, "")
    /\ UNCHANGED <<now, ex>>

\* public.updatePartialOutput without its status check
UpdatePartialOutputAnyStatus(commandId, p) ==
    /\ IF ~Exists(commandId)
       THEN /\ lastCall' = ReplyTo(p, "updatePartialOutput", commandId, FALSE, FALSE, "")
            /\ UNCHANGED commandQueue
       ELSE /\ Patch(commandId, [commandQueue[commandId] EXCEPT
                            !.status = "executing",
                            !.updatedAt = now,
                            !.partialOutput =
                                IF p.partialOutput # None THEN p.partialOutput ELSE @,
                            !.partialStderr =
                                IF p.partialStderr # None THEN p.partialStderr ELSE @])
            /\ lastCall' = ReplyTo(p, "updatePartialOutput", commandId, TRUE, FALSE, "")
    /\ UNCHANGED <<now, ex>>

\* public.updatePartialOutput
UpdatePartialOutput(commandId, p) ==
    /\ IF ~Exists(commandId)
       THEN /\ lastCall' = ReplyTo(p, "updatePartialOutput", commandId, FALSE, FALSE, "")
            /\ UNCHANGED commandQueue
       ELSE IF commandQueue[commandId].status # "claimed"
               /\ commandQueue[commandId].status # "executing"
       THEN /\ lastCall' = ReplyTo(p, "updatePartialOutput", commandId, FALSE, FALSE, "")
            /\ UNCHANGED commandQueue
       ELSE /\ Patch(commandId, [commandQueue[commandId] EXCEPT
                            !.status = "executing",
                            !.updatedAt = now,
                            !.partialOutput =
                                IF p.partialOutput # None THEN p.partialOutput ELSE @,
                            !.partialStderr =
                                IF p.partialStderr # None THEN p.partialStderr ELSE @])
            /\ lastCall' = ReplyTo(p, "updatePartialOutput", commandId, TRUE, FALSE, "")
    /\ UNCHANGED <<now, ex>>

\* public.submitResult
SubmitResult(commandId, r) ==
    /\ IF ~Exists(commandId)
       THEN /\ lastCall' = Reply("submitResult", commandId, "", FALSE, FALSE, "")
            /\ UNCHANGED commandQueue
       ELSE /\ Patch(commandId, WithResult(commandQueue[commandId], r, now))
            /\ lastCall' = Reply("submitResult", commandId, "", TRUE, FALSE, "")
    /\ UNCHANGED <<now, ex>>

-----------------------------------------------------------------------------
(* Queries.  A query reads the table and writes nothing, so it is an       *)
(* operator on the current state.                                          *)

Min(a, b) == IF a < b THEN a ELSE b
Max(a, b) == IF a > b THEN a ELSE b

\* the ids of the table in ascending creation order
AllIds == [i \in 1..Len(commandQueue) |-> i]

Reverse(seq) == [i \in 1..Len(seq) |-> seq[Len(seq) + 1 - i]]

\* query.take(n)
Take(seq, n) == SubSeq(seq, 1, Min(n, Len(seq)))

\* withIndex("by_machineId_status", machineId, "pending").order("desc")
PendingIndexDesc(machineId) ==
    Reverse(SelectSeq(AllIds, LAMBDA i :
        commandQueue[i].machineId = machineId /\ commandQueue[i].status = "pending"))

\* withIndex("by_machineId", machineId).order("asc")
MachineIndexAsc(machineId) ==
    SelectSeq(AllIds, LAMBDA i : commandQueue[i].machineId = machineId)

\* withIndex("by_machineId_status", machineId, "pending").order("asc")
PendingIndexAsc(machineId) ==
    SelectSeq(AllIds, LAMBDA i :
        commandQueue[i].machineId = machineId /\ commandQueue[i].status = "pending")

\* the fields listPending returns for a record
PendingView(i) ==
    [_id |-> i,
     machineId |-> commandQueue[i].machineId,
     command |-> commandQueue[i].command,
     targetType |-> commandQueue[i].targetType,
     targetHost |-> commandQueue[i].targetHost,
     targetPort |-> commandQueue[i].targetPort,
     targetUsername |-> commandQueue[i].targetUsername,
     timeoutMs |-> commandQueue[i].timeoutMs,
     status |-> commandQueue[i].status,
     createdBy |-> commandQueue[i].createdBy,
     createdAt |-> commandQueue[i].createdAt]

\* commands.listPending reading the index newest first
ListPendingNewestFirst(machineId, limit) ==
    LET commands == Take(PendingIndexDesc(machineId), OrElse(limit, DefaultLimit))
    IN  [k \in 1..Len(commands) |-> PendingView(commands[k])]

\* commands.listPending
ListPending(machineId, limit) ==
    LET commands == Take(PendingIndexAsc(machineId), OrElse(limit, DefaultLimit))
    IN  [k \in 1..Len(commands) |-> PendingView(commands[k])]

\* the fields getPendingCommands returns for a record
PublicView(i) ==
    [_id |-> i,
     command |-> commandQueue[i].command,
     targetType |-> commandQueue[i].targetType,
     targetHost |-> commandQueue[i].targetHost,
     targetPort |-> commandQueue[i].targetPort,
     targetUsername |-> commandQueue[i].targetUsername,
     timeoutMs |-> commandQueue[i].timeoutMs,
     createdAt |-> commandQueue[i].createdAt]

\* public.getPendingCommands reading the by_machineId index
GetPendingCommandsAnyStatus(machineId) ==
    LET commands == Take(MachineIndexAsc(machineId), PublicLimit)
    IN  [k \in 1..Len(commands) |-> PublicView(commands[k])]

\* public.getPendingCommands
GetPendingCommands(machineId) ==
    LET commands == Take(PendingIndexAsc(machineId), PublicLimit)
    IN  [k \in 1..Len(commands) |-> PublicView(commands[k])]

\* commands.get: null, or the stored fields of the record
Get(id) ==
    IF ~Exists(id)
    THEN None
    ELSE LET cmd == commandQueue[id]
         IN  Some([_id |-> id,
                   machineId |-> cmd.machineId,
                   command |-> cmd.command,
                   targetType |-> cmd.targetType,
                   targetHost |-> cmd.targetHost,
                   targetPort |-> cmd.targetPort,
                   targetUsername |-> cmd.targetUsername,
                   timeoutMs |-> cmd.timeoutMs,
                   status |-> cmd.status,
                   claimedBy |-> cmd.claimedBy,
                   claimedAt |-> cmd.claimedAt,
                   output |-> cmd.output,
                   stderr |-> cmd.stderr,
                   exitCode |-> cmd.exitCode,
                   error |-> cmd.error,
                   durationMs |-> cmd.durationMs,
                   completedAt |-> cmd.completedAt,
                   createdBy |-> cmd.createdBy,
                   createdAt |-> cmd.createdAt,
                   updatedAt |-> cmd.updatedAt])

\* rpc.getCommandResult
GetCommandResult(commandId) ==
    IF ~Exists(commandId)
    THEN [found |-> FALSE]
    ELSE [found |-> TRUE,
          status |-> commandQueue[commandId].status,
          output |-> commandQueue[commandId].output,
          stderr |-> commandQueue[commandId].stderr,
          exitCode |-> commandQueue[commandId].exitCode,
          error |-> commandQueue[commandId].error,
          durationMs |-> commandQueue[commandId].durationMs]

\* String.prototype.slice(start) on a string held as a sequence of characters
Slice(str, start) ==
    LET from == IF start < 0 THEN Max(Len(str) + start, 0) ELSE Min(start, Len(str))
    IN  SubSeq(str, from + 1, Len(str))

\* the reply of getCommandStream that treats only completed commands as done
StreamOfCompletedOnly(cmd, outputOffset) ==
    IF cmd.status = "completed"
    THEN [found |-> TRUE, status |-> cmd.status,
          partialOutput |-> None, partialStderr |-> None,
          output |-> cmd.output, stderr |-> cmd.stderr,
          exitCode |-> cmd.exitCode, error |-> cmd.error, done |-> TRUE]
    ELSE [found |-> TRUE, status |-> cmd.status,
          partialOutput |->
              IF outputOffset # None /\ cmd.partialOutput # None
                 /\ cmd.partialOutput[1] # <<>>
              THEN Some(Slice(cmd.partialOutput[1], outputOffset[1]))
              ELSE cmd.partialOutput,
          partialStderr |-> cmd.partialStderr,
          output |-> None, stderr |-> None,
          exitCode |-> None, error |-> None, done |-> FALSE]

\* the reply of getCommandStream for the record cmd
StreamOf(cmd, outputOffset) ==
    LET isDone == cmd.status = "completed" \/ cmd.status = "failed"
                    \/ cmd.status = "timeout"
    IN  IF isDone
        THEN [found |-> TRUE, status |-> cmd.status,
              partialOutput |-> None, partialStderr |-> None,
              output |-> cmd.output, stderr |-> cmd.stderr,
              exitCode |-> cmd.exitCode, error |-> cmd.error, done |-> TRUE]
        ELSE [found |-> TRUE, status |-> cmd.status,
              partialOutput |->
                  IF outputOffset # None /\ cmd.partialOutput # None
                     /\ cmd.partialOutput[1] # <<>>
                  THEN Some(Slice(cmd.partialOutput[1], outputOffset[1]))
                  ELSE cmd.partialOutput,
              partialStderr |-> cmd.partialStderr,
              output |-> None, stderr |-> None,
              exitCode |-> None, error |-> None, done |-> FALSE]

\* rpc.getCommandStream
GetCommandStream(commandId, outputOffset) ==
    IF ~Exists(commandId)
    THEN [found |-> FALSE]
    ELSE StreamOf(commandQueue[commandId], outputOffset)

\* values of outputOffset
Offsets == {None, Some(0), Some(1), Some(5), Some(-1)}

-----------------------------------------------------------------------------
(* rpc.ts *)

\* rpc.queueRpcCommand
QueueRpcCommand(args) ==
    /\ IF SshInvalid(args)
       THEN /\ lastCall' = ReplyTo(args, "queueRpcCommand", 0, FALSE, FALSE, SshError)
            /\ UNCHANGED commandQueue
       ELSE /\ Insert(NewCommand(args, now))
            /\ lastCall' = ReplyTo(args, "queueRpcCommand", Len(commandQueue) + 1,
                                   TRUE, FALSE, "")
    /\ UNCHANGED <<now, claimCalls, preempted, relay>>

QueueFailedError == "Failed to queue command"
ExhaustedError == "All retry attempts failed"
RelayTimeoutError == "Command execution timed out on relay"
RpcTimeoutPrefix == "RPC timeout: command did not complete within "

\* the message of the error exec makes when its deadline passes
RpcTimeoutError(timeoutMs) == RpcTimeoutPrefix \o ToString(timeoutMs) \o "ms"

\* values of timeoutMs given to exec
ExecTimeouts == {1, DefaultTimeoutMs}

\* the characters of the error messages that reach shouldRetry
Text ==
    ("Network timeout" :> <<"N", "e", "t", "w", "o", "r", "k", " ", "t", "i", "m", "e", "o", "u", "t">>)
    @@ ("Invalid machine ID format" :> <<"I", "n", "v", "a", "l", "i", "d", " ", "m", "a", "c", "h", "i", "n", "e", " ", "I", "D", " ", "f", "o", "r", "m", "a", "t">>)
    @@ ("Failed to queue command" :> <<"F", "a", "i", "l", "e", "d", " ", "t", "o", " ", "q", "u", "e", "u", "e", " ", "c", "o", "m", "m", "a", "n", "d">>)
    @@ ("All retry attempts failed" :> <<"A", "l", "l", " ", "r", "e", "t", "r", "y", " ", "a", "t", "t", "e", "m", "p", "t", "s", " ", "f", "a", "i", "l", "e", "d">>)
    @@ ("Command not found" :> <<"C", "o", "m", "m", "a", "n", "d", " ", "n", "o", "t", " ", "f", "o", "u", "n", "d">>)
    @@ [m \in {RpcTimeoutError(t) : t \in ExecTimeouts} |->
            <<"R", "P", "C", " ", "t", "i", "m", "e", "o", "u", "t", ":", " ", "c", "o", "m", "m", "a", "n", "d", " ", "d", "i", "d", " ", "n", "o", "t", " ", "c", "o", "m", "p", "l", "e", "t", "e", " ", "w", "i", "t", "h", "i", "n", " ">>]

\* String.prototype.toLowerCase on the letters that occur
LowerCase(str) ==
    LET lower == ("A" :> "a") @@ ("C" :> "c") @@ ("D" :> "d") @@ ("F" :> "f") @@ ("I" :> "i") @@ ("N" :> "n") @@ ("P" :> "p") @@ ("R" :> "r")
    IN  [i \in 1..Len(str) |-> IF str[i] \in DOMAIN lower THEN lower[str[i]] ELSE str[i]]

\* String.prototype.includes
Includes(str, pattern) ==
    \E i \in 1..(Len(str) - Len(pattern) + 1) :
        SubSeq(str, i, i + Len(pattern) - 1) = pattern

TransientPatterns ==
    { <<"n", "e", "t", "w", "o", "r", "k">>,
      <<"t", "i", "m", "e", "o", "u", "t">>,
      <<"e", "c", "o", "n", "n", "r", "e", "s", "e", "t">>,
      <<"e", "c", "o", "n", "n", "r", "e", "f", "u", "s", "e", "d">>,
      <<"t", "e", "m", "p", "o", "r", "a", "r", "y">>,
      <<"u", "n", "a", "v", "a", "i", "l", "a", "b", "l", "e">>,
      <<"r", "e", "t", "r", "y">>,
      <<"r", "a", "t", "e", " ", "l", "i", "m", "i", "t">>,
      <<"t", "o", "o", " ", "m", "a", "n", "y", " ", "r", "e", "q", "u", "e", "s", "t", "s">>,
      <<"5", "0", "3">>,
      <<"5", "0", "2">>,
      <<"5", "0", "4">> }

\* isTransientError
IsTransientError(message) ==
    LET lowered == LowerCase(Text[message])
    IN  \E pattern \in TransientPatterns : Includes(lowered, pattern)

\* the shouldRetry option: the default, or a caller's function
\*   always         () => true
\*   never          () => false
\*   attemptBelow2  (error, attempt) => attempt < 2
\*   networkOnly    (error) => error.message.includes("Network")
RetryPolicies == {"isTransientError", "always", "never", "attemptBelow2", "networkOnly"}

ShouldRetry(policy, message, attempt) ==
    CASE policy = "isTransientError" -> IsTransientError(message)
      [] policy = "always" -> TRUE
      [] policy = "never" -> FALSE
      [] policy = "attemptBelow2" -> attempt < 2
      [] policy = "networkOnly" ->
            Includes(Text[message], <<"N", "e", "t", "w", "o", "r", "k">>)

\* an ExecResult, and the value execAsync returns
ExecResult(success, error, timedOut, attempts) ==
    [success |-> success, output |-> None, stderr |-> None, exitCode |-> None,
     error |-> error, durationMs |-> None, timedOut |-> timedOut,
     attempts |-> attempts, commandId |-> None, threw |-> FALSE]

\* the state of a call of exec or execAsync: its options with their defaults
\* applied, its local variables, where it stands, and how often it has called
\* ctx.runMutation and ctx.runQuery.  polled is the reply of the last
\* ctx.runQuery (None when it threw); queued lists the commandIds the queue
\* calls returned and errors the error each failed attempt ended with.
NoExec ==
    [pc |-> "idle", fn |-> "",
     args |-> QueueArgs("", "local", None, None, None, None),
     timeoutMs |-> 0, pollIntervalMs |-> 0, retries |-> 0, retryDelayMs |-> 0,
     shouldRetry |-> "",
     attempt |-> 0, startTime |-> 0, commandId |-> 0, lastError |-> None,
     wake |-> 0, result |-> None, queueCalls |-> 0, queryCalls |-> 0,
     polled |-> None, queued |-> <<>>, errors |-> <<>>]

\* the options of exec, destructured with their defaults
Destructured(fn, o) ==
    [NoExec EXCEPT
        !.fn = fn,
        !.args = o.args,
        !.timeoutMs = OrElse(o.args.timeoutMs, DefaultTimeoutMs),
        !.pollIntervalMs = OrElse(o.pollIntervalMs, DefaultPollIntervalMs),
        !.retries = OrElse(o.retries, DefaultRetries),
        !.retryDelayMs = OrElse(o.retryDelayMs, DefaultRetryDelayMs),
        !.shouldRetry = OrElse(o.shouldRetry, "isTransientError")]

\* exec returns result
Return(e, result) == [e EXCEPT !.pc = "done", !.result = Some(result)]

\* exec is called, without the check of the SSH target
ExecCallUnvalidated(o) ==
    /\ ex.pc = "idle"
    /\ ex' = [Destructured("exec", o) EXCEPT !.pc = "loop"]
    /\ lastCall' = NoCall
    /\ UNCHANGED <<commandQueue, now, claimCalls, preempted, relay>>

\* exec is called: options and the check of the SSH target (lines 296-322)
ExecCall(o) ==
    /\ ex.pc = "idle"
    /\ ex' = IF SshInvalid(o.args)
             THEN Return(Destructured("exec", o),
                         [ExecResult(FALSE, Some(SshError), None, None)
                            EXCEPT !.attempts = None])
             ELSE [Destructured("exec", o) EXCEPT !.pc = "loop"]
    /\ lastCall' = NoCall
    /\ UNCHANGED <<commandQueue, now, claimCalls, preempted, relay>>

\* the loop condition with one attempt too many
AttemptsRemainOneMore(e) == e.attempt <= e.retries + 1

\* attempt <= retries: the condition of the retry loop and of every retry
AttemptsRemain(e) == e.attempt <= e.retries

\* a failed attempt: sleep and go round again when attempts remain and
\* shouldRetry agrees, return the error otherwise
RetryOrReturn(e, message, result) ==
    IF AttemptsRemain(e) /\ ShouldRetry(e.shouldRetry, message, e.attempt)
    THEN [e EXCEPT !.lastError = Some(message),
                   !.pc = "sleepRetry",
                   !.wake = now + e.retryDelayMs]
    ELSE Return(e, result)

\* the outcomes of ctx.runMutation(rpcApi.queueRpcCommand): the handler runs,
\* the call returns a failure with or without a message, or the call throws
QueueOutcomes ==
    {<<"run", None>>, <<"fail", None>>}
    \cup {<<"fail", Some(m)>> : m \in {"Network timeout", "Invalid machine ID format"}}
    \cup {<<"throw", Some(m)>> : m \in {"Network timeout", "Invalid machine ID format"}}

\* the outcomes of ctx.runQuery(rpcApi.getCommandResult): the handler runs,
\* the call throws, or the function the caller wired into rpcApi answers
\* that the record is gone or that it has status timeout
QueryOutcomes ==
    {<<"run", None>>, <<"missing", None>>, <<"timeout", None>>}
    \cup {<<"throw", Some(m)>> : m \in {"Network timeout", "Invalid machine ID format"}}

\* the reply of ctx.runQuery for an outcome that does not throw
QueryReply(outcome, commandId) ==
    CASE outcome[1] = "run" -> GetCommandResult(commandId)
      [] outcome[1] = "missing" -> [found |-> FALSE]
      [] outcome[1] = "timeout" ->
            [GetCommandResult(commandId) EXCEPT !.status = "timeout"]

\* the head of the retry loop and the queue call of one attempt (lines 324-356, 427-448)
ExecAttempt(outcome) ==
    /\ ex.pc = "loop"
    /\ IF ~AttemptsRemain(ex)
       THEN /\ ex' = Return(ex, ExecResult(FALSE,
                                Some(OrElse(ex.lastError, ExhaustedError)),
                                None, Some(ex.attempt)))
            /\ lastCall' = NoCall
            /\ UNCHANGED commandQueue
       ELSE LET e == [ex EXCEPT !.attempt = @ + 1,
                                !.startTime = now,
                                !.queueCalls = @ + 1]
                failed(message) ==
                    RetryOrReturn([e EXCEPT !.errors = Append(@, message)], message,
                                  ExecResult(FALSE, Some(message), None, Some(e.attempt)))
            IN  IF outcome[1] = "run"
                THEN /\ QueueRpcCommand([e.args EXCEPT !.timeoutMs = Some(e.timeoutMs)])
                     /\ ex' = IF lastCall'.ok
                              THEN [e EXCEPT !.commandId = lastCall'.id,
                                             !.queued = Append(@, lastCall'.id),
                                             !.pc = "poll"]
                              ELSE failed(lastCall'.err)
                ELSE /\ ex' = failed(OrElse(outcome[2], QueueFailedError))
                     /\ lastCall' = Reply("runMutation", 0, "", FALSE,
                                          outcome[1] = "throw",
                                          OrElse(outcome[2], ""))
                     /\ UNCHANGED commandQueue
    /\ UNCHANGED <<now, claimCalls, preempted, relay>>

\* the code after the polling loop (lines 413-426)
AfterPolling(e) ==
    RetryOrReturn(e, RpcTimeoutError(e.timeoutMs),
                  ExecResult(FALSE, Some(RpcTimeoutError(e.timeoutMs)),
                             Some(TRUE), Some(e.attempt)))

\* success of a finished command as exec reports it, from the status alone
SucceededByStatus(result) == result.status = "completed"

\* success of a finished command as exec reports it (line 389)
Succeeded(result) ==
    result.status = "completed"
        /\ (result.exitCode = Some(0) \/ result.exitCode = None)

\* what exec does with the reply of a poll, a status timeout being polled on
ObservedTimeoutPolledOn(e, result) ==
    IF ~result.found
    THEN Return(e, ExecResult(FALSE, Some(NotFoundError), None, Some(e.attempt)))
    ELSE IF result.status = "completed" \/ result.status = "failed"
    THEN Return(e,
            [success |-> Succeeded(result),
             output |-> result.output, stderr |-> result.stderr,
             exitCode |-> result.exitCode, error |-> result.error,
             durationMs |-> result.durationMs, timedOut |-> None,
             attempts |-> Some(e.attempt), commandId |-> None,
             threw |-> FALSE])
    ELSE [e EXCEPT !.pc = "sleepPoll", !.wake = now + e.pollIntervalMs]

\* what exec does with the reply of a poll (lines 378-410)
Observed(e, result) ==
    IF ~result.found
    THEN Return(e, ExecResult(FALSE, Some(NotFoundError), None, Some(e.attempt)))
    ELSE IF result.status = "completed" \/ result.status = "failed"
    THEN Return(e,
            [success |-> Succeeded(result),
             output |-> result.output, stderr |-> result.stderr,
             exitCode |-> result.exitCode, error |-> result.error,
             durationMs |-> result.durationMs, timedOut |-> None,
             attempts |-> Some(e.attempt), commandId |-> None,
             threw |-> FALSE])
    ELSE IF result.status = "timeout"
    THEN Return(e, ExecResult(FALSE, Some(RelayTimeoutError), Some(TRUE),
                              Some(e.attempt)))
    ELSE [e EXCEPT !.pc = "sleepPoll", !.wake = now + e.pollIntervalMs]

\* one round of the polling loop (lines 358-411).  A poll that throws an
\* error shouldRetry accepts leaves the loop by break, which lands in the
\* code after the loop.
ExecPoll(outcome) ==
    /\ ex.pc = "poll"
    /\ ex' =
        IF ~(now - ex.startTime < ex.timeoutMs)
        THEN AfterPolling([ex EXCEPT
                            !.errors = Append(@, RpcTimeoutError(ex.timeoutMs))])
        ELSE LET e == [ex EXCEPT !.queryCalls = @ + 1]
             IN  IF outcome[1] = "throw"
                 THEN LET f == [e EXCEPT !.polled = None,
                                         !.errors = Append(@, outcome[2][1])]
                      IN  IF AttemptsRemain(f)
                             /\ ShouldRetry(f.shouldRetry, outcome[2][1], f.attempt)
                          THEN AfterPolling([f EXCEPT !.lastError = outcome[2]])
                          ELSE Return(f, ExecResult(FALSE,
                                        Some("Polling failed: " \o outcome[2][1]),
                                        None, Some(f.attempt)))
                 ELSE LET result == QueryReply(outcome, e.commandId)
                      IN  Observed([e EXCEPT !.polled = Some(result)], result)
    /\ lastCall' = NoCall
    /\ UNCHANGED <<commandQueue, now, claimCalls, preempted, relay>>

\* sleep(ms) is over, but only the sleep before a retry ever ends
ExecWakeBeforeRetryOnly ==
    /\ ex.pc = "sleepRetry"
    /\ now >= ex.wake
    /\ ex' = [ex EXCEPT !.pc = "loop"]
    /\ lastCall' = NoCall
    /\ UNCHANGED <<commandQueue, now, claimCalls, preempted, relay>>

\* sleep(ms) is over
ExecWake ==
    /\ ex.pc \in {"sleepPoll", "sleepRetry"}
    /\ now >= ex.wake
    /\ ex' = [ex EXCEPT !.pc = IF ex.pc = "sleepPoll" THEN "poll" ELSE "loop"]
    /\ lastCall' = NoCall
    /\ UNCHANGED <<commandQueue, now, claimCalls, preempted, relay>>

\* execAsync entering the retry loop of exec
ExecAsyncLooping(o, outcome) ==
    /\ ex.pc = "idle"
    /\ ex' = [Destructured("execAsync", o) EXCEPT !.pc = "loop"]
    /\ lastCall' = NoCall
    /\ UNCHANGED <<commandQueue, now, claimCalls, preempted, relay>>

\* execAsync
ExecAsync(o, outcome) ==
    /\ ex.pc = "idle"
    /\ LET e == Destructured("execAsync", o)
           q == [e EXCEPT !.queueCalls = 1]
           value(success, commandId, error) ==
               [ExecResult(success, error, None, None) EXCEPT !.commandId = commandId]
       IN  IF SshInvalid(o.args)
           THEN /\ ex' = Return(e, value(FALSE, None, Some(SshError)))
                /\ lastCall' = NoCall
                /\ UNCHANGED commandQueue
           ELSE IF outcome[1] = "run"
           THEN /\ QueueRpcCommand([e.args EXCEPT !.timeoutMs = Some(e.timeoutMs)])
                /\ ex' = IF lastCall'.ok
                         THEN Return([q EXCEPT !.queued = <<lastCall'.id>>],
                                     value(TRUE, Some(lastCall'.id), None))
                         ELSE Return(q, value(FALSE, None, Some(lastCall'.err)))
           ELSE /\ ex' = IF outcome[1] = "throw"
                         THEN Return(q, [value(FALSE, None, outcome[2])
                                            EXCEPT !.threw = TRUE])
                         ELSE Return(q, value(FALSE, None,
                                        Some(OrElse(outcome[2], QueueFailedError))))
                /\ lastCall' = Reply("runMutation", 0, "", FALSE,
                                     outcome[1] = "throw", OrElse(outcome[2], ""))
                /\ UNCHANGED commandQueue
    /\ UNCHANGED <<now, claimCalls, preempted, relay>>

-----------------------------------------------------------------------------
(* Environment *)

\* time passes between two handlers
Tick ==
    /\ now < MaxTime
    /\ now' = now + 1
    /\ lastCall' = NoCall
    /\ UNCHANGED <<commandQueue, claimCalls, preempted, ex, relay>>

NoRace == UNCHANGED <<claimCalls, preempted, relay>>

-----------------------------------------------------------------------------
(* The relay *)

RelayModes == {"polling", "subscription"}

\* what /relay/verify answers for the relay's API key
RelayAssignment == [assignmentId |-> "relay-1", machineId |-> "m1"]

\* the Relay object after its constructor; runs holds the processCommand /
\* processCommandViaConvex calls in progress
NoRelay ==
    [running |-> FALSE, mode |-> "off", assignment |-> None, convexClient |-> FALSE,
     processingCommands |-> {}, runs |-> <<>>]

NoCalls == [r \in Racers |-> [id |-> 0, state |-> "idle"]]

Init ==
    /\ commandQueue = <<>>
    /\ now = 1
    /\ lastCall = NoCall
    /\ claimCalls = NoCalls
    /\ preempted = {}
    /\ ex = NoExec
    /\ relay = NoRelay

\* the command lifecycle: every mutation of the table, called in any order
Next ==
    \/ \E a \in PlainTargets : Len(commandQueue) < MaxCommands /\ Queue(a)
    \/ \E id \in Ids, r \in Claimants : Claim(id, r) /\ NoRace
    \/ \E id \in Ids, r \in Claimants : ClaimCommand(id, r) /\ NoRace
    \/ \E id \in Ids : StartExecution(id) /\ NoRace
    \/ \E id \in Ids, p \in PartialArgs : UpdatePartialOutput(id, p) /\ NoRace
    \/ \E id \in Ids, r \in ResultArgs : Complete(id, r) /\ NoRace
    \/ \E id \in Ids, r \in ResultArgs : SubmitResult(id, r) /\ NoRace
    \/ Tick

Spec == Init /\ [][Next]_vars

-----------------------------------------------------------------------------
(* Concurrent claim calls.  The callers issue their calls while the command *)
(* is pending; the transactions then run one at a time in any order, with   *)
(* any other mutation in between.  The race is followed at one reading of   *)
(* the clock.                                                               *)

InFlight(id) == \E r \in Racers : claimCalls[r] = [id |-> id, state |-> "issued"]

\* N >= 2 callers with distinct claimant ids call claim on a pending command
IssueClaims(id, callers) ==
    /\ Cardinality(callers) >= 2
    /\ claimCalls = NoCalls
    /\ Exists(id)
    /\ commandQueue[id].status = "pending"
    /\ claimCalls' = [r \in Racers |->
                        IF r \in callers THEN [id |-> id, state |-> "issued"]
                        ELSE claimCalls[r]]
    /\ lastCall' = NoCall
    /\ UNCHANGED <<commandQueue, now, preempted, ex, relay>>

\* what the caller of a claim call is told
ClaimOutcome(reply) ==
    IF reply.ok THEN "ok"
    ELSE IF reply.err = NotFoundError THEN "notFound"
    ELSE "notPending"

\* the transaction of one issued call runs, through either entry point
RunClaim(r) ==
    /\ claimCalls[r].state = "issued"
    /\ \/ Claim(claimCalls[r].id, r)
       \/ ClaimCommand(claimCalls[r].id, r)
    /\ claimCalls' = [claimCalls EXCEPT ![r].state = ClaimOutcome(lastCall')]
    /\ UNCHANGED <<preempted, relay>>

\* another mutation runs on id; it is recorded when it ends the pending
\* status of a command whose claim calls have not all run
Bystander(id) ==
    /\ preempted' =
        IF Exists(id) /\ InFlight(id)
           /\ commandQueue[id].status = "pending"
           /\ commandQueue'[id].status # "pending"
        THEN preempted \cup {id}
        ELSE preempted
    /\ UNCHANGED <<claimCalls, relay>>

NextClaim ==
    \/ \E a \in PlainTargets : Len(commandQueue) < MaxCommands /\ Queue(a)
    \/ \E id \in Ids : \E callers \in SUBSET Racers : IssueClaims(id, callers)
    \/ \E r \in Racers : RunClaim(r)
    \/ \E id \in Ids : StartExecution(id) /\ Bystander(id)
    \/ \E id \in Ids, p \in PartialArgs : UpdatePartialOutput(id, p) /\ Bystander(id)
    \/ \E id \in Ids, r \in ResultArgs : SubmitResult(id, r) /\ Bystander(id)

SpecClaim == Init /\ [][NextClaim]_vars

CallsOn(id) == {r \in Racers : claimCalls[r].id = id}
Winners(id) == {r \in CallsOn(id) : claimCalls[r].state = "ok"}

\* C1: when N >= 2 claim calls with distinct claimant ids are issued
\* concurrently on a pending command, in every interleaving exactly one call
\* reports success and the other N-1 are rejected as not pending (no two calls
\* ever both succeed; exactly one does once all have run, unless another
\* mutation ended the pending status before the first of them ran).
C1_ExactlyOneClaimWins ==
    \A id \in Ids :
        /\ Cardinality(Winners(id)) <= 1
        /\ (CallsOn(id) # {} /\ ~InFlight(id) /\ id \notin preempted) =>
            /\ Cardinality(Winners(id)) = 1
            /\ \A r \in CallsOn(id) \ Winners(id) :
                    claimCalls[r].state = "notPending"
            /\ commandQueue[id].claimedBy \in {Some(r) : r \in Winners(id)}

\* three calls raced on one command and all have returned
C1_Witness ==
    \E id \in Ids :
        /\ Cardinality(CallsOn(id)) >= 3
        /\ ~InFlight(id)
        /\ id \notin preempted
        /\ Cardinality(Winners(id)) = 1
        /\ Cardinality({r \in CallsOn(id) : claimCalls[r].state = "notPending"}) >= 2

-----------------------------------------------------------------------------
(* Delivery: the pending lists of two machines while commands are queued,   *)
(* claimed and finished.                                                    *)

DeliveryTargets ==
    { QueueArgs(m, "local", None, None, None, None) : m \in Machines }

DeliveryResult ==
    [success |-> TRUE, output |-> Some("hi"), stderr |-> None,
     exitCode |-> Some(0), error |-> None, durationMs |-> Some(5)]

QueuedIds == 1..MaxQueued

\* values of the limit argument of listPending
Limits == {None, Some(1), Some(2)}

NextDelivery ==
    \/ \E a \in DeliveryTargets : Len(commandQueue) < MaxQueued /\ Queue(a)
    \/ \E id \in QueuedIds : ClaimCommand(id, "relay-1") /\ NoRace
    \/ \E id \in QueuedIds : SubmitResult(id, DeliveryResult) /\ NoRace
    \/ Tick

SpecDelivery == Init /\ [][NextDelivery]_vars

\* the ids of a query result, in the order returned
IdsOf(result) == [k \in 1..Len(result) |-> result[k]._id]

InResult(id, ids) == \E k \in 1..Len(ids) : ids[k] = id

\* ids is in creation order, and holds no command while leaving out an older
\* pending command of the same machine
Fifo(machineId, ids) ==
    /\ \A j, k \in 1..Len(ids) :
        j < k => /\ ids[j] < ids[k]
                 /\ commandQueue[ids[j]].createdAt <= commandQueue[ids[k]].createdAt
    /\ \A k \in 1..Len(ids) : \A c1 \in 1..Len(commandQueue) :
        (/\ c1 < ids[k]
         /\ commandQueue[c1].machineId = machineId
         /\ commandQueue[c1].status = "pending")
        => InResult(c1, ids)

\* C7: for two commands of the same machine, every listPending /
\* getPendingCommands result that contains both lists the one created first
\* before the other, and a result cut by the limit never contains the later one
\* while omitting the still-pending earlier one.
C7_FifoDelivery ==
    \A m \in Machines :
        /\ \A limit \in Limits : Fifo(m, IdsOf(ListPending(m, limit)))
        /\ Fifo(m, IdsOf(GetPendingCommands(m)))

\* a machine has two pending commands: the full list holds both, oldest first,
\* and the list cut to one holds the older
C7_Witness ==
    \E m \in Machines : \E c1, c2 \in QueuedIds :
        /\ c1 < c2
        /\ IdsOf(ListPending(m, None)) = <<c1, c2>>
        /\ IdsOf(GetPendingCommands(m)) = <<c1, c2>>
        /\ IdsOf(ListPending(m, Some(1))) = <<c1>>
        /\ commandQueue[c1].createdAt < commandQueue[c2].createdAt

\* only pending commands of machineId, none of them ever claimed
OnlyPendingOf(machineId, ids) ==
    \A k \in 1..Len(ids) :
        /\ Exists(ids[k])
        /\ commandQueue[ids[k]].machineId = machineId
        /\ commandQueue[ids[k]].status = "pending"
        /\ commandQueue[ids[k]].claimedBy = None

\* C8: listPending / getPendingCommands for machine M returns only commands
\* whose machineId is M and whose status is pending at query time; a command
\* that has been claimed appears in no later result.
C8_OnlyPendingOfMachine ==
    \A m \in Machines :
        /\ \A limit \in Limits : OnlyPendingOf(m, IdsOf(ListPending(m, limit)))
        /\ OnlyPendingOf(m, IdsOf(GetPendingCommands(m)))

\* a machine's only command was claimed and has finished, the other machine
\* has a pending command: the first machine is told of neither
C8_Witness ==
    \E m \in Machines : \E c1, c2 \in QueuedIds :
        /\ Exists(c1) /\ Exists(c2)
        /\ commandQueue[c1].machineId = m
        /\ IsSome(commandQueue[c1].claimedBy)
        /\ commandQueue[c1].status = "completed"
        /\ commandQueue[c2].machineId # m
        /\ commandQueue[c2].status = "pending"
        /\ GetPendingCommands(m) = <<>>
        /\ ListPending(m, None) = <<>>
        /\ IdsOf(GetPendingCommands(commandQueue[c2].machineId)) = <<c2>>

-----------------------------------------------------------------------------
(* Creation: the four entry points that create a command, called with every *)
(* combination of target type, host and username, at one reading of the     *)
(* clock.                                                                   *)

\* the options exec and execAsync are called with
CreateOpts ==
    { [args |-> [a EXCEPT !.timeoutMs = Some(1)],
       pollIntervalMs |-> Some(1),
       retries |-> r,
       retryDelayMs |-> Some(0),
       shouldRetry |-> p] :
        a \in AllTargets,
        r \in {None} \cup {Some(n) : n \in 0..MaxRetries},
        p \in {None} }

NextCreate ==
    \/ \E a \in AllTargets : Len(commandQueue) < MaxCommands /\ Queue(a)
    \/ \E a \in AllTargets :
        Len(commandQueue) < MaxCommands /\ QueueRpcCommand(a) /\ UNCHANGED ex
    \/ \E o \in CreateOpts : ExecCall(o)
    \/ \E outcome \in QueueOutcomes : ExecAttempt(outcome)
    \/ \E outcome \in QueryOutcomes : ExecPoll(outcome)
    \/ ExecWake
    \/ \E o \in CreateOpts, outcome \in QueueOutcomes : ExecAsync(o, outcome)

SpecCreate == Init /\ [][NextCreate]_vars

\* an optional string that is absent or empty
Absent(o) == o = None \/ o = Some("")

\* an ssh target that lacks targetHost or targetUsername
MissingSshField(a) ==
    a.targetType = "ssh" /\ (Absent(a.targetHost) \/ Absent(a.targetUsername))

CreateOps == {"queue", "queueRpcCommand"}

\* C6: for targetType ssh each of the four creation entry points (queue,
\* queueRpcCommand, exec, execAsync) rejects exactly the inputs in which
\* targetHost or targetUsername is missing (absent or empty), all with the
\* message "SSH target requires targetHost and targetUsername", and a rejected
\* creation inserts no command record.
C6_SshValidation ==
    [][/\ lastCall'.op \in CreateOps =>
            LET a == lastCall'.args[1]
            IN  /\ ~lastCall'.ok <=> MissingSshField(a)
                /\ ~lastCall'.ok =>
                    /\ lastCall'.err = SshError
                    /\ commandQueue' = commandQueue
                /\ lastCall'.ok =>
                    /\ commandQueue' = Append(commandQueue, commandQueue'[lastCall'.id])
                    /\ commandQueue'[lastCall'.id].status = "pending"
                    /\ commandQueue'[lastCall'.id].targetHost = a.targetHost
                    /\ commandQueue'[lastCall'.id].targetUsername = a.targetUsername
       /\ (ex.pc = "idle" /\ ex'.pc # "idle") =>
            /\ MissingSshField(ex'.args) <=>
                    (ex'.pc = "done" /\ ex'.result[1].error = Some(SshError))
            /\ MissingSshField(ex'.args) =>
                    /\ ~ex'.result[1].success
                    /\ commandQueue' = commandQueue
                    /\ ex'.queueCalls = 0
       /\ (ex.pc \notin {"idle", "done"} /\ ex'.pc = "done") =>
            ex'.result[1].error # Some(SshError)]_vars

\* execAsync has turned down an ssh target with a host and no username,
\* while a direct creation of an ssh target with both has been stored
C6_Witness ==
    /\ ex.fn = "execAsync" /\ ex.pc = "done"
    /\ ex.args.targetType = "ssh"
    /\ ex.args.targetHost = Some("10.0.0.5")
    /\ ex.args.targetUsername = None
    /\ ex.result[1].error = Some(SshError)
    /\ \E id \in Ids :
        /\ Exists(id)
        /\ commandQueue[id].targetType = "ssh"
        /\ commandQueue[id].targetUsername = Some("admin")

\* C10: exec called with targetType ssh and a missing targetHost or
\* targetUsername returns the validation failure without invoking the queue
\* mutation or the result query even once, for every value of retries.
C10_ExecValidationUnretried ==
    (ex.fn = "exec" /\ MissingSshField(ex.args)) =>
        /\ ex.pc = "done"
        /\ ex.result = Some([ExecResult(FALSE, Some(SshError), None, None)
                                EXCEPT !.attempts = None])
        /\ ex.queueCalls = 0
        /\ ex.queryCalls = 0

\* exec was called with retries and an ssh target without a host
C10_Witness ==
    /\ ex.fn = "exec" /\ ex.pc = "done"
    /\ ex.retries >= 1
    /\ ex.args.targetType = "ssh"
    /\ ex.args.targetHost = None
    /\ ex.result[1].error = Some(SshError)
    /\ ex.queueCalls = 0

\* C18: execAsync invokes the queue mutation at most once, never invokes the
\* result query and never retries: it has returned when its single step is
\* over; when its queue call succeeds it returns success=true with the id of
\* the one pending record that call inserted.
C18_ExecAsyncQueuesOnce ==
    /\ [](ex.fn = "execAsync" =>
            /\ ex.pc = "done"
            /\ ex.queueCalls <= 1
            /\ ex.queryCalls = 0
            /\ ex.attempt = 0
            /\ ex.result[1].success <=> IsSome(ex.result[1].commandId))
    /\ [][/\ (ex'.fn = "execAsync" /\ ex.pc = "idle"
                /\ lastCall'.op = "queueRpcCommand" /\ lastCall'.ok) =>
                /\ ex'.queueCalls = 1
                /\ ex'.result[1].success
                /\ ~ex'.result[1].threw
                /\ ex'.result[1].commandId = Some(lastCall'.id)
                /\ Len(commandQueue') = Len(commandQueue) + 1
                /\ lastCall'.id = Len(commandQueue')
                /\ SubSeq(commandQueue', 1, Len(commandQueue)) = commandQueue
                /\ commandQueue'[lastCall'.id].status = "pending"
          /\ (ex.fn = "execAsync") => (ex' = ex)]_vars

\* execAsync has returned the id of the pending command it queued, after one
\* queue call and no query
C18_Witness ==
    /\ ex.fn = "execAsync" /\ ex.pc = "done"
    /\ ex.result[1].success
    /\ IsSome(ex.result[1].commandId)
    /\ Exists(ex.result[1].commandId[1])
    /\ commandQueue[ex.result[1].commandId[1]].status = "pending"
    /\ ex.queueCalls = 1 /\ ex.queryCalls = 0

-----------------------------------------------------------------------------
(* Blocking calls: one call of exec with every retry budget and retry       *)
(* policy, the outcomes of its queue and query calls chosen freely, while a *)
(* relay reports results for the commands it queued and time passes.        *)

MaxPolls == 2

\* the options exec is called with
ExecOpts ==
    { [args |-> [a EXCEPT !.timeoutMs = Some(1)],
       pollIntervalMs |-> Some(0),
       retries |-> r,
       retryDelayMs |-> Some(0),
       shouldRetry |-> p] :
        a \in PlainTargets,
        r \in {None} \cup {Some(n) : n \in 0..MaxRetries},
        p \in {None} \cup {Some(f) : f \in RetryPolicies} }

\* the results a relay reports: exit code 0, none, or non-zero on a command
\* reported as a success, and a failure
RelayResults ==
    { [success |-> TRUE, output |-> Some("hi"), stderr |-> None,
       exitCode |-> Some(0), error |-> None, durationMs |-> Some(5)],
      [success |-> TRUE, output |-> Some("hi"), stderr |-> None,
       exitCode |-> None, error |-> None, durationMs |-> None],
      [success |-> TRUE, output |-> None, stderr |-> Some("boom"),
       exitCode |-> Some(1), error |-> None, durationMs |-> Some(5)],
      [success |-> FALSE, output |-> None, stderr |-> Some("boom"),
       exitCode |-> Some(1), error |-> Some("exit 1"), durationMs |-> Some(5)] }

\* the deadline of the running attempt has passed
DeadlinePassed == ~(now - ex.startTime < ex.timeoutMs)

NextExec ==
    \/ \E o \in ExecOpts : ExecCall(o)
    \/ \E outcome \in QueueOutcomes : ExecAttempt(outcome)
    \/ \E outcome \in QueryOutcomes :
        (ex.queryCalls < MaxPolls \/ DeadlinePassed) /\ ExecPoll(outcome)
    \/ ExecWake
    \/ \E r \in RelayResults :
        /\ ex.pc \in {"poll", "sleepPoll"}
        /\ SubmitResult(ex.commandId, r) /\ NoRace
    \/ Tick

SpecExec == Init /\ [][NextExec]_vars

\* C11: one exec call invokes the queue mutation at most retries+1 times, and
\* the attempts value it returns is at least 1, at most retries+1, and equal
\* to the number of queue calls it made.
C11_AttemptsBounded ==
    ex.fn = "exec" =>
        /\ ex.queueCalls <= ex.retries + 1
        /\ (ex.pc = "done" /\ ~MissingSshField(ex.args)) =>
            /\ IsSome(ex.result[1].attempts)
            /\ ex.result[1].attempts[1] >= 1
            /\ ex.result[1].attempts[1] <= ex.retries + 1
            /\ ex.result[1].attempts[1] = ex.queueCalls

\* exec used its whole budget: with retries >= 1 it returned after retries+1
\* queue calls
C11_Witness ==
    /\ ex.fn = "exec" /\ ex.pc = "done"
    /\ ex.retries >= 1
    /\ ex.queueCalls = ex.retries + 1
    /\ ex.result[1].attempts = Some(ex.retries + 1)

\* a step in which exec polled and ctx.runQuery returned a reply
PollReplied == ex.pc = "poll" /\ ex'.queryCalls = ex.queryCalls + 1 /\ IsSome(ex'.polled)

C13_LogicalOutcomeNotRetried ==
    [][/\ (/\ PollReplied
            /\ (~ex'.polled[1].found \/ IsTerminal(ex'.polled[1].status))) =>
                /\ ex'.pc = "done"
                /\ ex'.queueCalls = ex.queueCalls
                /\ ex'.result[1].attempts = Some(ex.attempt)
                /\ ~ex'.polled[1].found =>
                        /\ ~ex'.result[1].success
                        /\ ex'.result[1].error = Some(NotFoundError)
       /\ ex.pc = "done" => ex' = ex]_vars

\* exec, allowed retries and told to retry everything, has returned after one
\* queue attempt because the poll found no record
C13_Witness ==
    /\ ex.fn = "exec" /\ ex.pc = "done"
    /\ ex.retries >= 1 /\ ex.shouldRetry = "always"
    /\ ex.polled = Some([found |-> FALSE])
    /\ ex.queueCalls = 1
    /\ ex.result[1].error = Some(NotFoundError)

\* a poll reply for a command that ran and failed
RanAndFailed(r) ==
    /\ r.found
    /\ \/ r.status \in {"failed", "timeout"}
       \/ r.status = "completed" /\ r.exitCode \notin {Some(0), None}

\* C17: for a command that ran and failed (status failed, status timeout, or
\* completed with a non-zero exit code) exec returns a result with
\* success=false and does not throw.
C17_FailureIsReturned ==
    [][(PollReplied /\ RanAndFailed(ex'.polled[1])) =>
            /\ ex'.pc = "done"
            /\ IsSome(ex'.result)
            /\ ~ex'.result[1].success
            /\ ~ex'.result[1].threw]_vars

\* exec has returned the relay's timeout as a failure
C17_Witness ==
    /\ ex.fn = "exec" /\ ex.pc = "done"
    /\ IsSome(ex.polled) /\ ex.polled[1].found
    /\ ex.polled[1].status = "timeout"
    /\ ~ex.result[1].success /\ ~ex.result[1].threw
    /\ ex.result[1].timedOut = Some(TRUE)
    /\ ex.result[1].error = Some(RelayTimeoutError)

\* a step in which an attempt of exec failed: the queue call returned a
\* failure or no id, the queue call threw, a poll threw, or the deadline passed
AttemptFailed == ex.fn = "exec" /\ Len(ex'.errors) = Len(ex.errors) + 1

\* the error the attempt failed with
FailureOf(e) == e.errors[Len(e.errors)]

\* C14: after a failed attempt exec starts another attempt if and only if
\* fewer than retries+1 attempts have been made and shouldRetry applied to
\* that failure's error returned true; isTransientError accepts "Network
\* timeout" and turns down "Invalid machine ID format".
C14_RetryIffAllowed ==
    [][AttemptFailed =>
        /\ ex'.pc \in {"sleepRetry", "done"}
        /\ ex'.pc = "sleepRetry" <=>
                /\ ex'.attempt < ex'.retries + 1
                /\ ShouldRetry(ex'.shouldRetry, FailureOf(ex'), ex'.attempt)
        /\ IsTransientError("Network timeout")
        /\ ~IsTransientError("Invalid machine ID format")]_vars

\* every attempt exec made failed, each with an error shouldRetry accepts
AllAttemptsRetryable ==
    /\ ex.attempt >= 1
    /\ Len(ex.errors) = ex.attempt
    /\ \A i \in 1..Len(ex.errors) : ShouldRetry(ex.shouldRetry, ex.errors[i], i)

\* C15: when every attempt of exec fails with a retryable error, exec returns
\* success=false with the error of the last attempt made (prefixed with
\* "Polling failed: " when a poll threw it) and attempts equal to the number
\* of queue attempts made, which is retries+1.
C15_ExhaustedRetries ==
    (ex.fn = "exec" /\ ex.pc = "done" /\ AllAttemptsRetryable) =>
        /\ ~ex.result[1].success
        /\ ex.result[1].error \in
                {Some(FailureOf(ex)), Some("Polling failed: " \o FailureOf(ex))}
        /\ ex.result[1].attempts = Some(ex.queueCalls)
        /\ ex.queueCalls = ex.retries + 1

\* a step of exec in which its queue call succeeded
QueueSucceeded ==
    /\ ex'.queueCalls = ex.queueCalls + 1
    /\ lastCall'.op = "queueRpcCommand" /\ lastCall'.ok

\* the table holds one record per successful queue call, each under its own id
QueuedRecordsDistinct ==
    /\ Len(commandQueue) = Len(ex.queued)
    /\ \A i \in 1..Len(ex.queued) : Exists(ex.queued[i])
    /\ \A i, j \in 1..Len(ex.queued) : (ex.queued[i] = ex.queued[j]) => (i = j)

\* C16: every exec attempt whose queue call succeeds inserts one new pending
\* command record; an exec call that made k successful queue calls leaves k
\* distinct records, and no step of exec resumes, modifies or removes a record
\* an earlier attempt created.
C16_FreshRecordPerAttempt ==
    /\ [](ex.fn = "exec" => QueuedRecordsDistinct)
    /\ [][/\ QueueSucceeded =>
                /\ Len(commandQueue') = Len(commandQueue) + 1
                /\ lastCall'.id = Len(commandQueue')
                /\ commandQueue'[lastCall'.id].status = "pending"
                /\ ex'.queued = Append(ex.queued, lastCall'.id)
          /\ (ex' # ex) =>
                /\ Len(commandQueue') >= Len(commandQueue)
                /\ \A id \in 1..Len(commandQueue) :
                        commandQueue'[id] = commandQueue[id]]_vars

\* exec has queued twice: the record of the first attempt is still pending
\* beside the record of the second, which the relay completed
C16_Witness ==
    /\ ex.fn = "exec" /\ ex.pc = "done"
    /\ ex.queued = <<1, 2>>
    /\ Len(commandQueue) = 2
    /\ commandQueue[1].status = "pending"
    /\ commandQueue[2].status = "completed"
    /\ ex.result[1].success

\* C25: exec returns a result with timedOut=true only if the poll of that step
\* observed status timeout, or timeoutMs has elapsed since the start of the
\* attempt; a thrown polling error never produces an "RPC timeout" result
\* before the deadline.
C25_TimedOutOnlyAtDeadline ==
    [][(/\ ex.fn = "exec" /\ ex.pc # "done" /\ ex'.pc = "done"
        /\ ex'.result[1].timedOut = Some(TRUE)) =>
            \/ /\ PollReplied
               /\ ex'.polled[1].found
               /\ ex'.polled[1].status = "timeout"
            \/ DeadlinePassed]_vars

-----------------------------------------------------------------------------
(* A relay that crashes: exec queues commands and every queue and query     *)
(* call of exec runs its handler.  Any mutation may be issued on a command  *)
(* that is not claimed; once a relay has claimed a command, none is issued  *)
(* on it any more.                                                          *)

Unclaimed(id) == Exists(id) /\ commandQueue[id].status # "claimed"

NextCrash ==
    \/ \E o \in ExecOpts : ExecCall(o)
    \/ ExecAttempt(<<"run", None>>)
    \/ (ex.queryCalls < MaxPolls \/ DeadlinePassed) /\ ExecPoll(<<"run", None>>)
    \/ ExecWake
    \/ \E id \in 1..Len(commandQueue) : ClaimCommand(id, "relay-1") /\ NoRace
    \/ \E id \in 1..Len(commandQueue) :
        Unclaimed(id) /\ StartExecution(id) /\ NoRace
    \/ \E id \in 1..Len(commandQueue) :
        Unclaimed(id) /\ SubmitResult(id, DeliveryResult) /\ NoRace
    \/ Tick

SpecCrash == Init /\ [][NextCrash]_vars

\* C29: no operation moves a command that has left pending back to pending;
\* a command claimed by a relay that then issues no further operation stays
\* in status claimed, and the caller of exec gets only the RPC timeout of its
\* own deadline for it.
C29_ClaimedForever ==
    /\ [][\A id \in 1..Len(commandQueue) :
            /\ commandQueue[id].status # "pending" =>
                    commandQueue'[id].status # "pending"
            /\ commandQueue[id].status = "claimed" =>
                    commandQueue'[id] = commandQueue[id]]_vars
    /\ [](\A i \in 1..Len(ex.errors) :
            commandQueue[ex.queued[i]].status = "claimed" =>
                ex.errors[i] = RpcTimeoutError(ex.timeoutMs))
    /\ []((ex.pc = "done" /\ commandQueue[ex.commandId].status = "claimed") =>
            /\ ~ex.result[1].success
            /\ ex.result[1].timedOut = Some(TRUE)
            /\ ex.result[1].error = Some(RpcTimeoutError(ex.timeoutMs))
            /\ ex.result[1].output = None
            /\ ex.result[1].exitCode = None)

\* exec has returned its RPC timeout while the command it queued is still
\* claimed by the relay
C29_Witness ==
    /\ ex.fn = "exec" /\ ex.pc = "done"
    /\ ex.result[1].timedOut = Some(TRUE)
    /\ ex.result[1].error = Some(RpcTimeoutError(ex.timeoutMs))
    /\ commandQueue[ex.commandId].status = "claimed"
    /\ commandQueue[ex.commandId].claimedBy = Some("relay-1")
    /\ now > commandQueue[ex.commandId].claimedAt[1]

-----------------------------------------------------------------------------
(* Termination of exec: every queue and query call comes back, with any of  *)
(* its outcomes, and the clock moves on whenever exec sleeps.               *)

\* the options exec is called with: it sleeps between two polls
LiveOpts ==
    { [o EXCEPT !.pollIntervalMs = Some(1)] : o \in ExecOpts }

\* time passes while exec sleeps
Sleep ==
    /\ ex.pc \in {"sleepPoll", "sleepRetry"}
    /\ now < ex.wake
    /\ now' = now + 1
    /\ lastCall' = NoCall
    /\ UNCHANGED <<commandQueue, claimCalls, preempted, ex, relay>>

QueueCallReturns == \E outcome \in QueueOutcomes : ExecAttempt(outcome)
QueryCallReturns == \E outcome \in QueryOutcomes : ExecPoll(outcome)

NextLive ==
    \/ \E o \in LiveOpts : ExecCall(o)
    \/ QueueCallReturns
    \/ QueryCallReturns
    \/ ExecWake
    \/ \E r \in RelayResults :
        /\ ex.pc \in {"poll", "sleepPoll"}
        /\ SubmitResult(ex.commandId, r) /\ NoRace
    \/ Sleep

SpecLive ==
    /\ Init /\ [][NextLive]_vars
    /\ WF_vars(QueueCallReturns)
    /\ WF_vars(QueryCallReturns)
    /\ WF_vars(ExecWake)
    /\ WF_vars(Sleep)

\* exec with retries=0 has queued a command that is still not terminal, and
\* every poll came back with a reply showing it so
NeverFinished ==
    /\ ex.fn = "exec" /\ ex.retries = 0
    /\ ex.queued # <<>>
    /\ ~IsTerminal(commandQueue[ex.commandId].status)
    /\ IsSome(ex.polled)
    /\ ex.polled[1].found /\ ~IsTerminal(ex.polled[1].status)

\* C26: every exec call eventually returns, provided queue and query calls
\* return and time advances; against a command that never leaves a
\* non-terminal status and with retries=0 it returns success=false,
\* timedOut=true and an error containing "RPC timeout", and not before
\* timeoutMs has elapsed.
C26_ExecReturns ==
    /\ (ex.fn = "exec") ~> (ex.pc = "done")
    /\ []((ex.pc = "done" /\ NeverFinished) =>
            /\ ~ex.result[1].success
            /\ ex.result[1].timedOut = Some(TRUE)
            /\ Includes(Text[ex.result[1].error[1]],
                        <<"R", "P", "C", " ", "t", "i", "m", "e", "o", "u", "t">>)
            /\ now - ex.startTime >= ex.timeoutMs)

\* exec with retries=0 has returned its RPC timeout for a command that is
\* still pending
C26_Witness ==
    /\ ex.pc = "done" /\ NeverFinished
    /\ commandQueue[ex.commandId].status = "pending"
    /\ ex.result[1].timedOut = Some(TRUE)
    /\ ex.result[1].attempts = Some(1)
    /\ now - ex.startTime >= ex.timeoutMs

-----------------------------------------------------------------------------
(* Completion: one command is created, claimed, started and completed with  *)
(* every combination of success flag, exit code and result fields.          *)

\* arguments of complete: either flag with exit code absent, 0 or 1, the
\* other result fields all absent or all given
CompleteArgs ==
    { [success |-> ok, output |-> f[1], stderr |-> f[2], exitCode |-> code,
       error |-> f[3], durationMs |-> f[4]] :
        ok \in BOOLEAN,
        code \in {None, Some(0), Some(1)},
        f \in { <<None, None, None, None>>,
                <<Some("hi"), Some("boom"), Some("exit 1"), Some(5)>> } }

NextComplete ==
    \/ \E a \in PlainTargets : commandQueue = <<>> /\ Queue(a)
    \/ \E id \in Ids, r \in Claimants : Claim(id, r) /\ NoRace
    \/ \E id \in Ids : StartExecution(id) /\ NoRace
    \/ \E id \in Ids, r \in CompleteArgs : Complete(id, r) /\ NoRace
    \/ Tick

SpecComplete == Init /\ [][NextComplete]_vars

\* the result fields of a query reply are those of r
SameResult(reply, r) ==
    /\ reply.output = r.output
    /\ reply.stderr = r.stderr
    /\ reply.exitCode = r.exitCode
    /\ reply.error = r.error
    /\ reply.durationMs = r.durationMs

\* C20: after create, a successful claim, and complete(id, success, output,
\* stderr, exitCode, error, durationMs) on the non-terminal command, get and
\* getCommandResult return status completed when success is true and failed
\* when it is false, whatever the exitCode, with every result field equal to
\* the value passed.
C20_CompleteStoresResult ==
    [][\A id \in Ids :
        (/\ lastCall'.op = "complete" /\ lastCall'.id = id
         /\ Exists(id)
         /\ IsSome(commandQueue[id].claimedBy)
         /\ ~IsTerminal(commandQueue[id].status)) =>
            LET r == lastCall'.args[1]
                expected == IF r.success THEN "completed" ELSE "failed"
            IN  /\ lastCall'.ok
                /\ IsSome(Get(id)')
                /\ (Get(id)')[1].status = expected
                /\ SameResult((Get(id)')[1], r)
                /\ (Get(id)')[1].completedAt = Some(now)
                /\ GetCommandResult(id)'.found
                /\ GetCommandResult(id)'.status = expected
                /\ SameResult(GetCommandResult(id)', r)]_vars

\* a claimed command was completed with success=true and exit code 1, and
\* both queries show it as completed with that exit code
C20_Witness ==
    /\ lastCall.op = "complete" /\ lastCall.ok
    /\ lastCall.args[1].success /\ lastCall.args[1].exitCode = Some(1)
    /\ IsSome(Get(lastCall.id))
    /\ Get(lastCall.id)[1].status = "completed"
    /\ Get(lastCall.id)[1].exitCode = Some(1)
    /\ IsSome(Get(lastCall.id)[1].claimedBy)
    /\ GetCommandResult(lastCall.id).status = "completed"
    /\ GetCommandResult(lastCall.id).exitCode = Some(1)

-----------------------------------------------------------------------------
(* The command lifecycle, checked under Spec *)

ClaimOps == {"claim", "claimCommand"}

\* C2: a claim call on an existing command succeeds if and only if the
\* command's status is pending when the call runs; on success the status
\* becomes claimed, claimedBy is the caller's claimant id and claimedAt is set.
C2_ClaimSucceedsIffPending ==
    [][\A id \in Ids :
        (lastCall'.op \in ClaimOps /\ lastCall'.id = id /\ Exists(id)) =>
            /\ lastCall'.ok <=> commandQueue[id].status = "pending"
            /\ lastCall'.ok =>
                /\ commandQueue'[id].status = "claimed"
                /\ lastCall'.by \in Claimants
                /\ commandQueue'[id].claimedBy = Some(lastCall'.by)
                /\ commandQueue'[id].claimedAt = Some(now)]_vars

\* a claim has just succeeded and the record carries the claimant
C2_Witness ==
    /\ lastCall.op \in ClaimOps /\ lastCall.ok
    /\ Exists(lastCall.id)
    /\ commandQueue[lastCall.id].status = "claimed"
    /\ commandQueue[lastCall.id].claimedBy = Some(lastCall.by)
    /\ IsSome(commandQueue[lastCall.id].claimedAt)

\* C3: once a command's status is completed, failed or timeout, no later
\* claim, startExecution or updatePartialOutput call changes its status.
C3_TerminalStatusKept ==
    [][\A id \in Ids :
        (/\ Exists(id)
         /\ IsTerminal(commandQueue[id].status)
         /\ lastCall'.op \in ClaimOps \cup {"startExecution", "updatePartialOutput"})
        => commandQueue'[id].status = commandQueue[id].status]_vars

ResultOps == {"complete", "submitResult"}

\* C4: once complete or submitResult has recorded a terminal result, every
\* later complete or submitResult call on the same id leaves status, output,
\* stderr, exitCode and error as first recorded.
C4_ResultKept ==
    [][\A id \in Ids :
        (/\ Exists(id)
         /\ IsTerminal(commandQueue[id].status)
         /\ IsSome(commandQueue[id].completedAt)
         /\ lastCall'.op \in ResultOps /\ lastCall'.id = id)
        => /\ commandQueue'[id].status = commandQueue[id].status
           /\ commandQueue'[id].output = commandQueue[id].output
           /\ commandQueue'[id].stderr = commandQueue[id].stderr
           /\ commandQueue'[id].exitCode = commandQueue[id].exitCode
           /\ commandQueue'[id].error = commandQueue[id].error]_vars

\* C5: after a claim has succeeded on a command its claimedBy never changes:
\* over its whole life a command has at most one claimant.
C5_ClaimantNeverChanges ==
    [][\A id \in Ids :
        (Exists(id) /\ IsSome(commandQueue[id].claimedBy))
        => commandQueue'[id].claimedBy = commandQueue[id].claimedBy]_vars

\* a claimed command has finished and a further claim on it was turned down
C5_Witness ==
    /\ lastCall.op \in ClaimOps /\ ~lastCall.ok
    /\ Exists(lastCall.id)
    /\ IsSome(commandQueue[lastCall.id].claimedBy)
    /\ IsTerminal(commandQueue[lastCall.id].status)

\* C9: getCommandStream never returns partialOutput or partialStderr for a
\* command whose status is completed, failed or timeout, and never returns the
\* final output or stderr for one whose status is pending, claimed or
\* executing.  Checked for every stored record under each of the six statuses.
C9_StreamVisibility ==
    \A id \in Ids : \A off \in Offsets : \A s \in Statuses :
        Exists(id) =>
            LET r == StreamOf([commandQueue[id] EXCEPT !.status = s], off)
            IN  /\ IsTerminal(s) =>
                    r.partialOutput = None /\ r.partialStderr = None
                /\ ~IsTerminal(s) =>
                    r.output = None /\ r.stderr = None

\* a finished command still holds partial output, which its stream reply hides,
\* and reading it again as executing hides the final output it holds
C9_Witness ==
    \E id \in Ids :
        /\ Exists(id)
        /\ commandQueue[id].status = "failed"
        /\ IsSome(commandQueue[id].partialOutput)
        /\ IsSome(commandQueue[id].stderr)
        /\ GetCommandStream(id, None).partialOutput = None
        /\ GetCommandStream(id, None).stderr = commandQueue[id].stderr
        /\ StreamOf([commandQueue[id] EXCEPT !.status = "executing"], None).stderr = None

\* C19: a claim call on a command id that does not exist yields a "Command not
\* found" outcome (thrown by commands.claim, returned as an error value by
\* public.claimCommand), never reports success, writes nothing, and differs
\* from the outcome of a claim on an existing command that is not pending.
C19_ClaimNotFound ==
    [][\A id \in Ids :
        (lastCall'.op \in ClaimOps /\ lastCall'.id = id) =>
            /\ ~Exists(id) =>
                /\ ~lastCall'.ok
                /\ lastCall'.err = NotFoundError
                /\ lastCall'.threw <=> lastCall'.op = "claim"
                /\ commandQueue' = commandQueue
            /\ (Exists(id) /\ commandQueue[id].status # "pending") =>
                /\ ~lastCall'.ok
                /\ ~lastCall'.threw
                /\ lastCall'.err # NotFoundError]_vars

\* commands.claim has thrown "Command not found" for an id without a record
C19_Witness ==
    /\ lastCall.op = "claim"
    /\ ~Exists(lastCall.id)
    /\ lastCall.threw /\ ~lastCall.ok
    /\ lastCall.err = NotFoundError

\* C22: in every reachable state a command with status claimed or executing
\* has claimedBy and claimedAt set, and a command with status pending has
\* neither: a command cannot reach executing without a successful claim.
C22_ClaimMetadata ==
    \A id \in Ids :
        Exists(id) =>
            /\ commandQueue[id].status \in {"claimed", "executing"} =>
                    /\ IsSome(commandQueue[id].claimedBy)
                    /\ IsSome(commandQueue[id].claimedAt)
            /\ commandQueue[id].status = "pending" =>
                    /\ commandQueue[id].claimedBy = None
                    /\ commandQueue[id].claimedAt = None

\* some result field of the record is present
AnyResultField(cmd) ==
    \/ IsSome(cmd.output) \/ IsSome(cmd.stderr) \/ IsSome(cmd.exitCode)
    \/ IsSome(cmd.error) \/ IsSome(cmd.durationMs)

\* C23: in every reachable state a command's completedAt is present if and
\* only if its status is completed, failed or timeout, and a result field
\* (output, stderr, exitCode, error, durationMs) is present only then.
C23_ResultMetadata ==
    \A id \in Ids :
        Exists(id) =>
            /\ IsSome(commandQueue[id].completedAt) <=> IsTerminal(commandQueue[id].status)
            /\ AnyResultField(commandQueue[id]) => IsTerminal(commandQueue[id].status)

\* C24: updatePartialOutput on a command in status claimed or executing stores
\* the given partial fields, leaves the status executing and reports
\* success=true; on a command that is pending, terminal or missing it reports
\* success=false without throwing and changes no field of any record.
C24_PartialOutput ==
    [][\A id \in Ids :
        (lastCall'.op = "updatePartialOutput" /\ lastCall'.id = id) =>
            LET p == lastCall'.args[1]
                live == Exists(id) /\ commandQueue[id].status \in {"claimed", "executing"}
            IN  /\ ~lastCall'.threw
                /\ lastCall'.ok <=> live
                /\ ~live => commandQueue' = commandQueue
                /\ live =>
                    /\ commandQueue'[id].status = "executing"
                    /\ IsSome(p.partialOutput) =>
                            commandQueue'[id].partialOutput = p.partialOutput
                    /\ IsSome(p.partialStderr) =>
                            commandQueue'[id].partialStderr = p.partialStderr
                    /\ commandQueue' =
                            [commandQueue EXCEPT ![id] =
                                [@ EXCEPT !.status = "executing",
                                          !.updatedAt = now,
                                          !.partialOutput = commandQueue'[id].partialOutput,
                                          !.partialStderr = commandQueue'[id].partialStderr]]]_vars

\* updatePartialOutput has moved a claimed command to executing and stored
\* both partial fields
C24_Witness ==
    /\ lastCall.op = "updatePartialOutput" /\ lastCall.ok
    /\ Exists(lastCall.id)
    /\ commandQueue[lastCall.id].status = "executing"
    /\ IsSome(commandQueue[lastCall.id].claimedBy)
    /\ commandQueue[lastCall.id].partialOutput = Some(<<"a", "b">>)
    /\ commandQueue[lastCall.id].partialStderr = Some(<<"w">>)

-----------------------------------------------------------------------------
(* The relay process: relay.ts, executor.ts and the HTTP routes it calls.   *)
(* One relay runs with the API key of assignment relay-1 on machine m1.     *)

MaxRuns == 2

\* GET /relay/commands for a verified assignment listing every machine
CommandsRouteEveryMachine(assignment) ==
    GetPendingCommands("m1") \o GetPendingCommands("m2")

\* GET /relay/commands for a verified assignment
CommandsRoute(assignment) == GetPendingCommands(assignment.machineId)

\* processCommand / processCommandViaConvex entered for cmd; rest holds the
\* commands of the same poll that follow it
NewRun(cmd, rest) ==
    [cmd |-> cmd, rest |-> rest, pc |-> "claim", startTime |-> 0, result |-> None]

\* Relay.start: the API key is verified and the relay watches for commands
RelayStart(mode) ==
    /\ relay.mode = "off"
    /\ relay' = [relay EXCEPT !.running = TRUE,
                              !.mode = mode,
                              !.convexClient = (mode = "subscription"),
                              !.assignment = Some(RelayAssignment)]
    /\ lastCall' = NoCall
    /\ UNCHANGED <<commandQueue, now, claimCalls, preempted, ex>>

\* pollForCommands up to its first processCommand call
PollForCommands ==
    /\ relay.running
    /\ relay.assignment # None
    /\ relay.mode = "polling"
    /\ Len(relay.runs) < MaxRuns
    /\ LET commands == CommandsRoute(relay.assignment[1])
       IN  relay' = IF Len(commands) > 0
                    THEN [relay EXCEPT
                            !.runs = Append(@, NewRun(Head(commands), Tail(commands)))]
                    ELSE relay
    /\ lastCall' = NoCall
    /\ UNCHANGED <<commandQueue, now, claimCalls, preempted, ex>>

\* the onUpdate callback without the check of processingCommands
OnUpdateUnchecked ==
    /\ relay.running
    /\ relay.mode = "subscription"
    /\ LET commands == GetPendingCommands(relay.assignment[1].machineId)
       IN  relay' = [relay EXCEPT
                !.processingCommands =
                    @ \cup {commands[k]._id : k \in 1..Len(commands)},
                !.runs = @ \o [k \in 1..Len(commands) |-> NewRun(commands[k], <<>>)]]
    /\ lastCall' = NoCall
    /\ UNCHANGED <<commandQueue, now, claimCalls, preempted, ex>>

\* the onUpdate callback of the getPendingCommands subscription: a run starts
\* for every listed command that is not being processed
OnUpdate ==
    /\ relay.running
    /\ relay.mode = "subscription"
    /\ LET commands == GetPendingCommands(relay.assignment[1].machineId)
           fresh == SelectSeq(commands,
                        LAMBDA c : c._id \notin relay.processingCommands)
       IN  relay' = [relay EXCEPT
                !.processingCommands =
                    @ \cup {fresh[k]._id : k \in 1..Len(fresh)},
                !.runs = @ \o [k \in 1..Len(fresh) |-> NewRun(fresh[k], <<>>)]]
    /\ lastCall' = NoCall
    /\ UNCHANGED <<commandQueue, now, claimCalls, preempted, ex>>

\* the sequence without its i-th element
RemoveAt(seq, i) == SubSeq(seq, 1, i - 1) \o SubSeq(seq, i + 1, Len(seq))

\* run i returns: the loop of pollForCommands goes on to the next command,
\* the subscription forgets the command id
EndRun(i) ==
    LET run == relay.runs[i]
    IN  IF relay.mode = "polling"
        THEN IF Len(run.rest) > 0
             THEN [relay EXCEPT !.runs[i] = NewRun(Head(run.rest), Tail(run.rest))]
             ELSE [relay EXCEPT !.runs = RemoveAt(@, i)]
        ELSE [relay EXCEPT !.runs = RemoveAt(@, i),
                           !.processingCommands = @ \ {run.cmd._id}]

\* how a request of the relay can end: the handler runs and replies, or the
\* request throws before reaching it
RequestOutcomes == {"run", "throw"}

\* the claim of run i without the test of its outcome
RelayClaimUnchecked(i, outcome) ==
    /\ i \in 1..Len(relay.runs)
    /\ relay.runs[i].pc = "claim"
    /\ IF outcome = "run"
       THEN ClaimCommand(relay.runs[i].cmd._id, relay.assignment[1].assignmentId)
       ELSE /\ lastCall' = NoCall
            /\ UNCHANGED <<commandQueue, now, ex>>
    /\ relay' = [relay EXCEPT !.runs[i].pc = "execute", !.runs[i].startTime = now]
    /\ UNCHANGED <<claimCalls, preempted>>

\* the claim of run i: POST /relay/commands/claim or the claimCommand mutation
RelayClaim(i, outcome) ==
    /\ i \in 1..Len(relay.runs)
    /\ relay.runs[i].pc = "claim"
    /\ IF outcome = "run"
       THEN /\ ClaimCommand(relay.runs[i].cmd._id, relay.assignment[1].assignmentId)
            /\ relay' = IF lastCall'.ok
                        THEN [relay EXCEPT !.runs[i].pc = "execute",
                                           !.runs[i].startTime = now]
                        ELSE EndRun(i)
       ELSE /\ relay' = EndRun(i)
            /\ lastCall' = NoCall
            /\ UNCHANGED <<commandQueue, now, ex>>
    /\ UNCHANGED <<claimCalls, preempted>>

\* how the child process or SSH channel of an execution can end
\* (or, for an SSH target, not start for want of a private key)
ExecutionOutcomes ==
    {<<"close", 0>>, <<"close", 1>>, <<"signal", 0>>, <<"error", -1>>,
     <<"timeout", -1>>, <<"nokey", -1>>}

\* the ExecutionResult of a run without a usable target
NotExecuted(error) ==
    [success |-> FALSE, output |-> Some(""), stderr |-> Some(""),
     exitCode |-> Some(-1), error |-> Some(error), durationMs |-> Some(0)]

\* executeLocal / executeSSH started at time started and ending at time t.
\* A close event carries the exit code, or null when a signal ended the
\* process: executeLocal takes the success from code ?? 0, executeSSH from
\* code.
ExecutionResult(targetType, outcome, started, t) ==
    IF outcome[1] = "close"
    THEN [success |-> outcome[2] = 0, output |-> Some(""), stderr |-> Some(""),
          exitCode |-> Some(outcome[2]), error |-> None,
          durationMs |-> Some(t - started)]
    ELSE IF outcome[1] = "signal"
    THEN [success |-> targetType = "local", output |-> Some(""), stderr |-> Some(""),
          exitCode |-> Some(0), error |-> None,
          durationMs |-> Some(t - started)]
    ELSE IF outcome[1] = "timeout"
    THEN [success |-> FALSE, output |-> Some(""), stderr |-> Some(""),
          exitCode |-> Some(-1), error |-> Some("Command timed out"),
          durationMs |-> Some(t - started)]
    ELSE [success |-> FALSE, output |-> Some(""),
          stderr |-> Some(IF targetType = "ssh" THEN "spawn error" ELSE ""),
          exitCode |-> Some(-1), error |-> Some("spawn error"),
          durationMs |-> Some(t - started)]

\* the execution of run i ends, by an executor without the watchdog timer
RelayExecuteNoWatchdog(i, outcome) ==
    /\ i \in 1..Len(relay.runs)
    /\ relay.runs[i].pc = "execute"
    /\ outcome[1] \notin {"timeout", "nokey"}
    /\ relay' = [relay EXCEPT
            !.runs[i].pc = "submit",
            !.runs[i].result = Some(ExecutionResult(relay.runs[i].cmd.targetType, outcome,
                                                  relay.runs[i].startTime, now))]
    /\ lastCall' = NoCall
    /\ UNCHANGED <<commandQueue, now, claimCalls, preempted, ex>>

\* the execution of run i ends; the watchdog timer fires no earlier than
\* timeoutMs after the start
RelayExecute(i, outcome) ==
    /\ i \in 1..Len(relay.runs)
    /\ relay.runs[i].pc = "execute"
    /\ LET run == relay.runs[i]
           result ==
               IF run.cmd.targetType = "ssh" /\ run.cmd.targetHost \in {None, Some("")}
               THEN NotExecuted("SSH target host missing")
               ELSE IF run.cmd.targetType \notin {"local", "ssh"}
               THEN NotExecuted("Unknown target type")
               ELSE IF outcome[1] = "nokey"
               THEN NotExecuted("No credentials found")
               ELSE ExecutionResult(run.cmd.targetType, outcome, run.startTime, now)
       IN  /\ outcome[1] = "timeout" => now - run.startTime >= run.cmd.timeoutMs
           /\ outcome[1] = "nokey" => run.cmd.targetType = "ssh"
           /\ relay' = [relay EXCEPT !.runs[i].pc = "submit",
                                     !.runs[i].result = Some(result)]
    /\ lastCall' = NoCall
    /\ UNCHANGED <<commandQueue, now, claimCalls, preempted, ex>>

\* the result of run i is sent: POST /relay/commands/result or the
\* submitResult mutation; a request that throws is logged, and
\* submitResultViaConvex returns at once when the client is gone
RelaySubmit(i, outcome) ==
    /\ i \in 1..Len(relay.runs)
    /\ relay.runs[i].pc = "submit"
    /\ IF outcome = "run" /\ (relay.mode = "polling" \/ relay.convexClient)
       THEN SubmitResult(relay.runs[i].cmd._id, relay.runs[i].result[1])
       ELSE /\ lastCall' = NoCall
            /\ UNCHANGED <<commandQueue, now, ex>>
    /\ relay' = EndRun(i)
    /\ UNCHANGED <<claimCalls, preempted>>

\* commands with a timeout of one unit of time, for either machine
RelayTargets ==
    { QueueArgs(m, "local", None, None, None, Some(1)) : m \in Machines }

RunIds == 1..MaxRuns

\* another relay of the same deployment gets to a pending command first
OtherRelayClaims(id) ==
    /\ Exists(id)
    /\ commandQueue[id].status = "pending"
    /\ ClaimCommand(id, "relay-2")
    /\ NoRace

NextRelay ==
    \/ \E a \in RelayTargets : Len(commandQueue) < MaxCommands /\ Queue(a)
    \/ \E mode \in RelayModes : RelayStart(mode)
    \/ PollForCommands
    \/ OnUpdate
    \/ \E i \in RunIds, o \in RequestOutcomes : RelayClaim(i, o)
    \/ \E i \in RunIds, o \in ExecutionOutcomes : RelayExecute(i, o)
    \/ \E i \in RunIds, o \in RequestOutcomes : RelaySubmit(i, o)
    \/ \E id \in Ids : OtherRelayClaims(id)
    \/ Tick

SpecRelay == Init /\ [][NextRelay]_vars

\* the machine the relay is assigned to
OwnMachine == relay.assignment[1].machineId

\* C21: a relay claims and executes only commands whose machineId equals the
\* machineId of its own assignment: every run it has in progress is for such
\* a command, every claim it issues names one, and no command of another
\* machine is ever claimed by it.
C21_OwnMachineOnly ==
    /\ [](\A i \in 1..Len(relay.runs) :
            commandQueue[relay.runs[i].cmd._id].machineId = OwnMachine)
    /\ [](\A id \in Ids :
            (Exists(id) /\ commandQueue[id].claimedBy = Some(RelayAssignment.assignmentId))
                => commandQueue[id].machineId = RelayAssignment.machineId)
    /\ [][(lastCall'.op = "claimCommand" /\ relay' # relay)
            => /\ Exists(lastCall'.id)
               /\ commandQueue[lastCall'.id].machineId = OwnMachine]_vars

\* the relay executes a command of its machine that it claimed
C21_Witness ==
    \E i \in 1..Len(relay.runs) :
        /\ relay.runs[i].pc = "execute"
        /\ commandQueue[relay.runs[i].cmd._id].claimedBy = Some("relay-1")
        /\ commandQueue[relay.runs[i].cmd._id].machineId = OwnMachine

\* C30: when the relay's execution of a claimed command exceeds the command's
\* timeoutMs, the watchdog ends the execution and the command's status becomes
\* timeout: the step in which the relay delivers the watchdog's result leaves
\* the command in status timeout.
C30_WatchdogMarksTimeout ==
    [][\A i \in 1..Len(relay.runs) :
        (/\ relay.runs[i].pc = "submit"
         /\ relay.runs[i].result[1].error = Some("Command timed out")
         /\ relay' # relay
         /\ lastCall'.op = "submitResult"
         /\ lastCall'.ok
         /\ lastCall'.id = relay.runs[i].cmd._id)
            => commandQueue'[lastCall'.id].status = "timeout"]_vars

-----------------------------------------------------------------------------
(* The HTTP routes of the relays.  A request carries the API key of a relay *)
(* assignment; the host application calls the mutations directly.           *)

\* POST /relay/commands/claim with the API key of assignment apiKey
ClaimRoute(apiKey, commandId) ==
    /\ apiKey \in Claimants
    /\ ClaimCommand(commandId, apiKey)

\* POST /relay/commands/result with the API key of assignment apiKey: the key
\* is verified and submitResult runs with the fields of the body; lastCall.by
\* records whose key the request carried
ResultRoute(apiKey, commandId, r) ==
    /\ apiKey \in Claimants
    /\ IF ~Exists(commandId)
       THEN /\ lastCall' = Reply("submitResult", commandId, apiKey, FALSE, FALSE, "")
            /\ UNCHANGED commandQueue
       ELSE /\ Patch(commandId, WithResult(commandQueue[commandId], r, now))
            /\ lastCall' = Reply("submitResult", commandId, apiKey, TRUE, FALSE, "")
    /\ UNCHANGED <<now, ex>>

NextRoutes ==
    \/ \E a \in PlainTargets : Len(commandQueue) < MaxCommands /\ Queue(a)
    \/ \E k \in Claimants, id \in Ids : ClaimRoute(k, id) /\ NoRace
    \/ \E k \in Claimants, id \in Ids, r \in ResultArgs : ResultRoute(k, id, r) /\ NoRace
    \/ \E id \in Ids : StartExecution(id) /\ NoRace
    \/ \E id \in Ids, p \in PartialArgs : UpdatePartialOutput(id, p) /\ NoRace
    \/ \E id \in Ids, r \in ResultArgs : Complete(id, r) /\ NoRace
    \/ Tick

SpecRoutes == Init /\ [][NextRoutes]_vars

\* C27: after a command has been claimed by relay R, a startExecution,
\* updatePartialOutput, complete or submitResult call issued by any party
\* other than R leaves the command unchanged.
C27_OnlyClaimantChanges ==
    [][\A id \in Ids :
        (/\ Exists(id)
         /\ IsSome(commandQueue[id].claimedBy)
         /\ lastCall'.op \in {"startExecution", "updatePartialOutput",
                              "complete", "submitResult"}
         /\ lastCall'.id = id
         /\ lastCall'.by # commandQueue[id].claimedBy[1])
            => commandQueue'[id] = commandQueue[id]]_vars

-----------------------------------------------------------------------------
(* The relay at work without failing requests and without other claimants.  *)
(* The poll timer keeps firing, the subscription delivers its updates, a    *)
(* request that was sent is answered, and the clock advances while a        *)
(* command executes, so that its watchdog timer comes due; the clock is     *)
(* followed during executions only.                                         *)

\* time passes during an execution whose watchdog is not yet due
Elapse ==
    /\ \E i \in 1..Len(relay.runs) :
        /\ relay.runs[i].pc = "execute"
        /\ now - relay.runs[i].startTime < relay.runs[i].cmd.timeoutMs
    /\ now' = now + 1
    /\ lastCall' = NoCall
    /\ UNCHANGED <<commandQueue, claimCalls, preempted, ex, relay>>

\* the watchdog of run i fires
WatchdogFires(i) == RelayExecute(i, <<"timeout", -1>>)

\* local commands for either machine and an SSH command for the relay's
RelayLiveTargets ==
    RelayTargets \cup
        { QueueArgs("m1", "ssh", Some("10.0.0.5"), None, Some("admin"), Some(1)) }

NextRelayLive ==
    \/ \E a \in RelayLiveTargets : Len(commandQueue) < MaxCommands /\ Queue(a)
    \/ \E mode \in RelayModes : RelayStart(mode)
    \/ PollForCommands
    \/ OnUpdate
    \/ \E i \in RunIds : RelayClaim(i, "run")
    \/ \E i \in RunIds, o \in ExecutionOutcomes : RelayExecute(i, o)
    \/ \E i \in RunIds : RelaySubmit(i, "run")
    \/ Elapse

SpecRelayLive ==
    /\ Init
    /\ [][NextRelayLive]_vars
    /\ WF_vars(PollForCommands)
    /\ WF_vars(OnUpdate)
    /\ WF_vars(Elapse)
    /\ \A i \in RunIds :
        /\ WF_vars(RelayClaim(i, "run"))
        /\ WF_vars(WatchdogFires(i))
        /\ WF_vars(RelaySubmit(i, "run"))

\* command id is pending for the machine of the running relay
PendingForRelay(id) ==
    /\ relay.running
    /\ Exists(id)
    /\ commandQueue[id].machineId = OwnMachine
    /\ commandQueue[id].status = "pending"

\* command id was claimed by the relay and has its result
DoneByRelay(id) ==
    /\ Exists(id)
    /\ commandQueue[id].claimedBy = Some(RelayAssignment.assignmentId)
    /\ commandQueue[id].status \in {"completed", "failed"}

-----------------------------------------------------------------------------
(* The two pending-command queries compared, under SpecDelivery. *)

\* C32: for every store state and every machineId, public.getPendingCommands
\* returns the same command ids in the same order as commands.listPending
\* called with its default limit.
C32_SameIdsAsListPending ==
    \A m \in Machines :
        IdsOf(GetPendingCommands(m)) = IdsOf(ListPending(m, None))

\* one machine has a finished and a pending command, the other a pending one:
\* both queries answer with the pending command of the machine asked for
C32_Witness ==
    \E m \in Machines : \E c1, c2 \in QueuedIds :
        /\ c1 < c2
        /\ Exists(c1) /\ Exists(c2)
        /\ commandQueue[c1].machineId = m
        /\ commandQueue[c1].status = "completed"
        /\ commandQueue[c2].machineId = m
        /\ IdsOf(GetPendingCommands(m)) = <<c2>>
        /\ IdsOf(ListPending(m, None)) = <<c2>>

\* the number of pending commands of machineId
PendingCount(machineId) ==
    Cardinality({i \in 1..Len(commandQueue) :
        commandQueue[i].machineId = machineId /\ commandQueue[i].status = "pending"})

\* every pending command of machineId that ids leaves out is younger than
\* every command in ids
Oldest(machineId, ids) ==
    \A k \in 1..Len(ids) : \A c \in 1..Len(commandQueue) :
        (/\ commandQueue[c].machineId = machineId
         /\ commandQueue[c].status = "pending"
         /\ ~InResult(c, ids))
        => /\ ids[k] < c
           /\ commandQueue[ids[k]].createdAt <= commandQueue[c].createdAt

\* C33: listPending(machineId, limit) returns exactly min(limit, number of
\* pending commands of that machine) commands, limit being 10 when omitted,
\* each a pending command of that machine listed once, and the returned
\* commands are the oldest pending ones of that machine.
C33_ListPendingCount ==
    \A m \in Machines : \A limit \in Limits :
        LET ids == IdsOf(ListPending(m, limit))
        IN  /\ Len(ids) = Min(IF limit = None THEN 10 ELSE limit[1], PendingCount(m))
            /\ \A j, k \in 1..Len(ids) : j # k => ids[j] # ids[k]
            /\ OnlyPendingOf(m, ids)
            /\ Oldest(m, ids)

\* a machine has two pending commands created at different times: limit 1
\* returns the older alone, limit 2 and the default return both
C33_Witness ==
    \E m \in Machines :
        /\ PendingCount(m) = 2
        /\ Len(ListPending(m, Some(1))) = 1
        /\ ListPending(m, Some(1))[1].createdAt < commandQueue[2].createdAt
        /\ Len(ListPending(m, Some(2))) = 2
        /\ Len(ListPending(m, None)) = 2

-----------------------------------------------------------------------------
(* Claims on commands in every status: both claim entry points called by    *)
(* either claimant at any time, between starts and results.                 *)

NextReject ==
    \/ \E a \in PlainTargets : Len(commandQueue) < MaxCommands /\ Queue(a)
    \/ \E id \in Ids, r \in Claimants : Claim(id, r) /\ NoRace
    \/ \E id \in Ids, r \in Claimants : ClaimCommand(id, r) /\ NoRace
    \/ \E id \in Ids : StartExecution(id) /\ NoRace
    \/ \E id \in Ids, r \in ResultArgs : SubmitResult(id, r) /\ NoRace
    \/ Tick

SpecReject == Init /\ [][NextReject]_vars

\* C38: a claim call made on a command that is not pending is rejected as
\* not pending, and leaves the command record unchanged: status, claimedBy,
\* claimedAt, updatedAt and all result fields keep their values.
C38_RejectedClaimChangesNothing ==
    [][\A id \in Ids :
        (/\ lastCall'.op \in ClaimOps
         /\ lastCall'.id = id
         /\ Exists(id)
         /\ commandQueue[id].status # "pending")
            => /\ ~lastCall'.ok
               /\ ~lastCall'.threw
               /\ lastCall'.op = "claimCommand" => lastCall'.err = NotPendingError
               /\ commandQueue'[id] = commandQueue[id]
               /\ commandQueue' = commandQueue]_vars

\* a claim by the other claimant has just been rejected, at a later time, on
\* a command that was claimed and has its result
C38_Witness ==
    /\ lastCall.op = "claimCommand"
    /\ ~lastCall.ok
    /\ lastCall.err = NotPendingError
    /\ Exists(lastCall.id)
    /\ commandQueue[lastCall.id].status = "failed"
    /\ IsSome(commandQueue[lastCall.id].claimedBy)
    /\ IsSome(commandQueue[lastCall.id].exitCode)
    /\ commandQueue[lastCall.id].updatedAt < now

-----------------------------------------------------------------------------
(* The queries as calls: a query handler runs in a step of its own, between *)
(* the mutations of a command's life.                                       *)

QueryNames ==
    {"listPending", "getPendingCommands", "get", "getCommandResult", "getCommandStream"}

\* a query call: its name and its arguments, those it does not take left empty
QueryCallOf(name, machineId, limit, id, outputOffset) ==
    [name |-> name, machineId |-> machineId, limit |-> limit, id |-> id,
     outputOffset |-> outputOffset]

\* the calls made: every machine and limit, an existing and a missing id,
\* the stream from its start and from offset 1
QueryCalls ==
    {QueryCallOf("listPending", m, l, 0, None) : m \in Machines, l \in Limits}
    \cup {QueryCallOf("getPendingCommands", m, None, 0, None) : m \in Machines}
    \cup {QueryCallOf(n, "", None, id, None) :
            n \in {"get", "getCommandResult"}, id \in 1..(MaxCommands + 1)}
    \cup {QueryCallOf("getCommandStream", "", None, id, o) :
            id \in 1..(MaxCommands + 1), o \in {None, Some(1)}}

\* what the handler of query call q returns
QueryResult(q) ==
    CASE q.name = "listPending" -> ListPending(q.machineId, q.limit)
      [] q.name = "getPendingCommands" -> GetPendingCommands(q.machineId)
      [] q.name = "get" -> Get(q.id)
      [] q.name = "getCommandResult" -> GetCommandResult(q.id)
      [] q.name = "getCommandStream" -> GetCommandStream(q.id, q.outputOffset)

\* a query handler that stamps the records it returns
RunQueryStamping(q) ==
    /\ lastCall' = ReplyTo(<<q, QueryResult(q)>>, q.name, q.id, TRUE, FALSE, "")
    /\ commandQueue' = [i \in 1..Len(commandQueue) |->
            IF i = q.id \/ commandQueue[i].machineId = q.machineId
            THEN [commandQueue[i] EXCEPT !.updatedAt = now]
            ELSE commandQueue[i]]
    /\ UNCHANGED <<now, ex>>

\* the handler of query call q runs: it reads the table and returns
RunQuery(q) ==
    /\ lastCall' = ReplyTo(<<q, QueryResult(q)>>, q.name, q.id, TRUE, FALSE, "")
    /\ UNCHANGED <<commandQueue, now, ex>>

\* the partial output a relay reports
StreamedOutput == [partialOutput |-> Some(<<"a", "b">>), partialStderr |-> Some(<<"w">>)]

NextQuery ==
    \/ \E a \in DeliveryTargets : Len(commandQueue) < MaxCommands /\ Queue(a)
    \/ \E id \in Ids : ClaimCommand(id, "relay-1") /\ NoRace
    \/ \E id \in Ids : UpdatePartialOutput(id, StreamedOutput) /\ NoRace
    \/ \E id \in Ids : SubmitResult(id, DeliveryResult) /\ NoRace
    \/ \E q \in QueryCalls : RunQuery(q) /\ NoRace
    \/ Tick

SpecQuery == Init /\ [][NextQuery]_vars

\* the last step ran a query handler
Queried == lastCall.op \in QueryNames

-----------------------------------------------------------------------------
(* Further claims about the relay. *)

\* C34: every command whose result was submitted by a relay after executing
\* it ends with status completed if and only if its recorded exitCode is 0,
\* and with status failed otherwise: the step in which the relay's result is
\* stored leaves the command so.
C34_CompletedIffExitZero ==
    [][(relay' # relay /\ lastCall'.op = "submitResult" /\ lastCall'.ok)
        => /\ commandQueue'[lastCall'.id].status \in {"completed", "failed"}
           /\ commandQueue'[lastCall'.id].status = "completed"
                <=> commandQueue'[lastCall'.id].exitCode = Some(0)]_vars

\* C35: in subscription mode the relay never has two overlapping processing
\* runs (claim, execute, submit result) for the same command id, however many
\* subscription updates list that command while a run is in progress.
C35_OneRunPerCommand ==
    relay.mode = "subscription" =>
        \A i, j \in 1..Len(relay.runs) :
            i # j => relay.runs[i].cmd._id # relay.runs[j].cmd._id

\* a run is in progress for a command that is still pending, so that the
\* subscription's updates list it, and the relay holds its id
C35_Witness ==
    /\ relay.mode = "subscription"
    /\ \E i \in 1..Len(relay.runs) :
        /\ relay.runs[i].pc = "claim"
        /\ relay.runs[i].cmd._id \in relay.processingCommands
        /\ InResult(relay.runs[i].cmd._id, IdsOf(GetPendingCommands(OwnMachine)))
    /\ lastCall.op = "none"

\* the number of runs of relay object r that are executing or submitting
Executing(r) ==
    Cardinality({i \in 1..Len(r.runs) : r.runs[i].pc \in {"execute", "submit"}})

\* C36: the relay submits a result for a command id only after its own claim
\* call for that id returned success, and a claim that was rejected or failed
\* is followed neither by the execution of the command nor by a result: a run
\* executes or submits only a command the relay's claim has marked, a run
\* starts executing only in the step of a successful claim of the relay, and
\* the step of a rejected claim starts no execution and stores no result.
C36_SubmitOnlyAfterOwnClaim ==
    /\ [](\A i \in 1..Len(relay.runs) :
            relay.runs[i].pc \in {"execute", "submit"} =>
                commandQueue[relay.runs[i].cmd._id].claimedBy
                    = Some(RelayAssignment.assignmentId))
    /\ [][(relay' # relay /\ lastCall'.op = "submitResult") =>
            /\ Exists(lastCall'.id)
            /\ commandQueue[lastCall'.id].claimedBy = Some(RelayAssignment.assignmentId)
            /\ Executing(relay') < Executing(relay)]_vars
    /\ [][Executing(relay') > Executing(relay) =>
            /\ lastCall'.op = "claimCommand"
            /\ lastCall'.ok
            /\ lastCall'.by = RelayAssignment.assignmentId]_vars
    /\ [][(relay' # relay /\ lastCall'.op = "claimCommand" /\ ~lastCall'.ok) =>
            /\ commandQueue' = commandQueue
            /\ Executing(relay') = Executing(relay)]_vars

\* the relay's claim of a command has just been rejected because the other
\* relay had it: the relay runs nothing
C36_Witness ==
    \E id \in Ids :
        /\ relay.running
        /\ Exists(id)
        /\ lastCall.id = id
        /\ commandQueue[id].status = "claimed"
        /\ commandQueue[id].claimedBy = Some("relay-2")
        /\ relay.runs = <<>>
        /\ lastCall.op = "claimCommand"
        /\ lastCall.err = NotPendingError

-----------------------------------------------------------------------------
(* The relay stopped while at work.  Requests reach the server and are      *)
(* answered; a poll lists up to MaxQueued commands.                         *)

\* Relay.stop: the timers are cleared, the subscription and the client closed
RelayStop ==
    /\ relay.running
    /\ relay' = [relay EXCEPT !.running = FALSE, !.convexClient = FALSE]
    /\ lastCall' = NoCall
    /\ UNCHANGED <<commandQueue, now, claimCalls, preempted, ex>>

\* commands of the relay's machine
StopTargets == { QueueArgs("m1", "local", None, None, None, Some(1)) }

NextStop ==
    \/ \E a \in StopTargets : Len(commandQueue) < MaxQueued /\ Queue(a)
    \/ \E mode \in RelayModes : RelayStart(mode)
    \/ PollForCommands
    \/ OnUpdate
    \/ \E i \in RunIds : RelayClaim(i, "run")
    \/ \E i \in RunIds, o \in ExecutionOutcomes : RelayExecute(i, o)
    \/ \E i \in RunIds : RelaySubmit(i, "run")
    \/ RelayStop
    \/ Tick

SpecStop == Init /\ [][NextStop]_vars

\* stop() has been called
Stopped == relay.mode # "off" /\ ~relay.running

\* after stop() no run enters its claim: every run of the next state that is
\* at its claim call was at it before
NoNewClaimAfterStop ==
    [][Stopped =>
        \A i \in 1..Len(relay'.runs) :
            relay'.runs[i].pc = "claim" =>
                \E j \in 1..Len(relay.runs) : relay.runs[j] = relay'.runs[i]]_vars

\* a command the relay has claimed and whose result is not stored has a run
\* of the relay that will submit it
ClaimedStillInHand ==
    \A id \in QueuedIds :
        (/\ Exists(id)
         /\ commandQueue[id].claimedBy = Some(RelayAssignment.assignmentId)
         /\ commandQueue[id].status = "claimed")
            => \E i \in 1..Len(relay.runs) :
                /\ relay.runs[i].cmd._id = id
                /\ relay.runs[i].pc \in {"execute", "submit"}

\* C37: after Relay.stop() has been called the relay issues no new claim
\* call, and every command it had already claimed still gets its result
\* submitted.
C37_StopFinishesClaimed ==
    /\ NoNewClaimAfterStop
    /\ []ClaimedStillInHand

====
